---- MODULE Spec2Model ----
(***************************************************************************)
(* Verification model of the rpi-hp-board kiosk controller core:           *)
(*   - Application lifecycle orchestration  (src/application.py)           *)
(*   - CommandProcessor marshalling queue   (src/can_system/command_processor.py) *)
(*   - CANManager listener and responder    (src/can_system/can_manager.py) *)
(*   - CANModule filter matcher             (src/can_system/can_module.py) *)
(* Each component has its own specification over the module's variables;   *)
(* the state of one object is kept in one record-valued variable whose     *)
(* fields carry the names of the object's attributes.                      *)
(***************************************************************************)
EXTENDS Integers, Sequences, FiniteSets, TLC

(***************************************************************************)
(* Bounds of the model                                                     *)
(***************************************************************************)
\* commands the listener's handlers may enqueue
MaxCmds == 2
\* key presses (<q>, <r>) delivered to the presentation thread
MaxKeys == 1
\* restarts (the terminal action of a restart re-creates every component)
MaxRestarts == 1

VARIABLES
    app,        \* Application: lifecycle flags, presentation thread, inputs seen
    teardown,   \* live threads started by _perform_cleanup_and_action
    cp,         \* CommandProcessor: queue, processing flag, lock, worker thread
    tk,         \* Tk root: callbacks pending from root.after(0, ..) / after(100, ..)
    hist,       \* history: commands in put() order and in execution order
    loops,      \* CANManager worker loops as the application sees them
    mt,         \* one run of the filter matcher: frame, rules, result
    rs,         \* one run of the responder loop with its clock and the frames sent
    rt,         \* one call of _send_can_message_with_retry with its log
    lm,         \* CANManager: lock, listener thread reference, stop event, threads
    lk,         \* CANModule: one run of _initialize_can_module and the interface
    ls          \* one run of the listener loop with its failure count

appVars == <<app, teardown, cp, tk, hist, loops>>

\* the variables of the other components, which the application leaves alone
notApp == <<mt, rs, rt, lm, lk, ls>>

(***************************************************************************)
(* The other components, at rest                                           *)
(***************************************************************************)
\* no frame is being matched
NoMatchRun == [pc |-> "idle"]
\* no responder loop under observation
NoResponderRun == [pc |-> "idle"]
\* no call of the retrying send under observation
NoRetryRun == [pc |-> "idle"]
\* no CANManager under observation
NoManagerRun == [pc |-> "idle"]
\* no initialization of the CAN module under observation
NoLinkRun == [pc |-> "idle"]
\* no listener loop under observation
NoListenerRun == [pc |-> "idle"]

(***************************************************************************)
(* Construction                                                            *)
(***************************************************************************)
\* names of the callables that are enqueued as commands
CommandNames == {"handle_video_control", "handle_timer_control", "restart_app",
                 "shutdown_system", "shutdown_app"}

\* the three cleanup actions handed to _perform_cleanup_and_action
CleanupActions == {"_restart_ui_cleanup", "_shutdown_ui_cleanup", "_system_shutdown_cleanup"}

\* a queue item (command, args): the callable's name and, for the two frame
\* handlers, the payload of the frame ("full": at least four data bytes)
NoCmd == [id |-> 0, name |-> "none", data |-> "none"]

\* CommandProcessor.__init__
NewCommandProcessor ==
    [command_queue |-> <<>>,        \* queue.Queue items, oldest first
     unfinished_tasks |-> 0,        \* queue.Queue.unfinished_tasks
     processing |-> FALSE,
     lock |-> "free",               \* "free" | "held"
     worker |-> [pc |-> "none", cmd |-> NoCmd]]

\* Application.__init__ and init_application
InitApp ==
    /\ app = [state |-> "constructed",     \* "constructed" | "running" | "exited"
              restart_in_progress |-> FALSE,
              shutdown_in_progress |-> FALSE,
              mainThread |-> "mainloop",   \* or the cleanup action being run
              lastRequest |-> [action |-> "none", accepted |-> FALSE],
              keys |-> 0,                  \* key presses delivered
              restarts |-> 0,              \* restart terminal actions run
              busFrames |-> 0,             \* frames sent by shutdown_system
              signal |-> "none"]           \* exception raised by _handle_signal
    /\ teardown = <<>>
    /\ cp = NewCommandProcessor
    /\ tk = [afterQueue |-> <<>>, terminalQueue |-> <<>>]
    /\ hist = [enqueued |-> <<>>, executed |-> <<>>, cmdCount |-> 0]
    /\ loops = [listener |-> "idle", responder |-> "idle"]

(***************************************************************************)
(* CommandProcessor                                                        *)
(***************************************************************************)
\* a handler that runs the command on the calling thread
RunOnCaller(name, data) ==
    LET c == [id |-> hist.cmdCount + 1, name |-> name, data |-> data] IN
    /\ hist.cmdCount < MaxCmds
    /\ cp' = cp
    /\ hist' = [hist EXCEPT !.enqueued = Append(@, c), !.executed = Append(@, c),
                            !.cmdCount = @ + 1]

\* an enqueue_command that takes the processor's lock for the put
EnqueueUnderLock(name, data) ==
    LET c == [id |-> hist.cmdCount + 1, name |-> name, data |-> data] IN
    /\ hist.cmdCount < MaxCmds
    /\ cp.lock = "free"
    /\ cp' = [cp EXCEPT !.command_queue = Append(@, c),
                        !.unfinished_tasks = @ + 1]
    /\ hist' = [hist EXCEPT !.enqueued = Append(@, c), !.cmdCount = @ + 1]

\* enqueue_command: self.command_queue.put((command, args)); the queue is
\* unbounded, so put never blocks
enqueue_command(name, data) ==
    LET c == [id |-> hist.cmdCount + 1, name |-> name, data |-> data] IN
    /\ hist.cmdCount < MaxCmds
    /\ cp' = [cp EXCEPT !.command_queue = Append(@, c),
                        !.unfinished_tasks = @ + 1]
    /\ hist' = [hist EXCEPT !.enqueued = Append(@, c), !.cmdCount = @ + 1]

\* process_queue: with self.lock: if not self.processing: start the worker
process_queue(p) ==
    IF ~p.processing
    THEN [p EXCEPT !.processing = TRUE, !.worker = [pc |-> "loop", cmd |-> NoCmd]]
    ELSE p

\* _process_commands: `while self.processing:`
WorkerLoop ==
    /\ cp.worker.pc = "loop"
    /\ cp' = [cp EXCEPT !.worker.pc = IF cp.processing THEN "get" ELSE "exited"]
    /\ UNCHANGED tk

\* the item command_queue.get hands out: the oldest one
QueueHeadNewest(q) == q[Len(q)]

QueueHead(q) == Head(q)

QueueRest(q) == SelectSeq(q, LAMBDA c : c # QueueHead(q))

\* _process_commands: `command, args = self.command_queue.get(timeout=1)`;
\* queue.Empty after the timeout leads back to the loop condition
WorkerGet ==
    /\ cp.worker.pc = "get"
    /\ IF cp.command_queue # <<>>
       THEN cp' = [cp EXCEPT !.worker = [pc |-> "after", cmd |-> QueueHead(cp.command_queue)],
                             !.command_queue = QueueRest(cp.command_queue)]
       ELSE cp' = [cp EXCEPT !.worker.pc = "loop"]
    /\ UNCHANGED tk

\* _process_commands: `self.root.after(0, lambda cmd=command, ...)`: the
\* callback is appended to the Tk timer queue (equal due times keep order)
WorkerAfter ==
    /\ cp.worker.pc = "after"
    /\ tk' = [tk EXCEPT !.afterQueue = Append(@, cp.worker.cmd)]
    /\ cp' = [cp EXCEPT !.worker.pc = "task_done"]

\* _process_commands: `self.command_queue.task_done()`
WorkerTaskDone ==
    /\ cp.worker.pc = "task_done"
    /\ cp' = [cp EXCEPT !.unfinished_tasks = @ - 1,
                        !.worker = [pc |-> "loop", cmd |-> NoCmd]]
    /\ UNCHANGED tk

(***************************************************************************)
(* Application: lifecycle requests                                         *)
(***************************************************************************)
\* a guard that looks at the restart flag alone
AlreadyInProgressRestartOnly(a) == a.restart_in_progress

\* a guard that looks at the shutdown flag alone
AlreadyInProgressShutdownOnly(a) == a.shutdown_in_progress

\* the entry guard of _perform_cleanup_and_action
AlreadyInProgress(a) == a.restart_in_progress \/ a.shutdown_in_progress

\* _perform_cleanup_and_action: guard and flag assignment under self.lock,
\* then threading.Thread(target=self._cleanup_and_execute_action).start().
\* Gives the application record and the teardown threads after the call.
PerformCleanupAndAction(a, td, cleanup_action) ==
    IF AlreadyInProgress(a)
    THEN [app |-> [a EXCEPT !.lastRequest = [action |-> cleanup_action, accepted |-> FALSE]],
          teardown |-> td]
    ELSE [app |-> [a EXCEPT
                     !.restart_in_progress = (cleanup_action = "_restart_ui_cleanup"),
                     !.shutdown_in_progress =
                         (cleanup_action \in {"_shutdown_ui_cleanup", "_system_shutdown_cleanup"}),
                     !.lastRequest = [action |-> cleanup_action, accepted |-> TRUE]],
          teardown |-> Append(td, [action |-> cleanup_action, pc |-> "stop_processing",
                                  atStop |-> 0])]

\* restart_app / shutdown_app / shutdown_system
restart_app(a, td) == PerformCleanupAndAction(a, td, "_restart_ui_cleanup")

shutdown_app(a, td) == PerformCleanupAndAction(a, td, "_shutdown_ui_cleanup")

\* shutdown_system sends the frame [0xFF, 0, ..] before the guarded call
shutdown_system(a, td) ==
    PerformCleanupAndAction([a EXCEPT !.busFrames = @ + 1], td, "_system_shutdown_cleanup")

\* what a command does when the presentation thread runs it
RunCommand(a, td, name) ==
    CASE name = "restart_app" -> restart_app(a, td)
      [] name = "shutdown_app" -> shutdown_app(a, td)
      [] name = "shutdown_system" -> shutdown_system(a, td)
      [] OTHER -> [app |-> a, teardown |-> td]

(***************************************************************************)
(* Application: start, inputs, presentation thread                         *)
(***************************************************************************)
\* Application.start: start listener and responder, process_queue, mainloop
AppStart ==
    /\ app.state = "constructed"
    /\ app' = [app EXCEPT !.state = "running"]
    /\ loops' = [listener |-> "running", responder |-> "running"]
    /\ cp' = process_queue(cp)
    /\ UNCHANGED <<teardown, tk, hist>>
    /\ UNCHANGED notApp

\* handler table of _setup_can_message_handlers: rule name -> enqueued callable
HandlerCommand(rule) ==
    CASE rule = "video_control" -> "handle_video_control"
      [] rule = "timer_control" -> "handle_timer_control"
      [] rule = "restart" -> "restart_app"
      [] rule = "shutdown" -> "shutdown_system"

\* the rules whose frames arrive in the model
DispatchedRules == {"video_control", "shutdown"}

\* payloads of the frames that arrive: the filter conditions may leave the
\* length of the payload open, so a matched frame can be shorter than 4 bytes
PayloadKinds == {"full", "short"}

\* the args the handler lambdas enqueue: (id, data) for the two frame
\* handlers, none for restart_app and shutdown_system
HandlerArgs(rule, payload) ==
    IF rule \in {"video_control", "timer_control"} THEN payload ELSE "none"

\* the listener thread dispatches a matched frame: the handler only enqueues.
\* Once the stop event is set, the iteration in progress is the last one.
ListenerDispatch(rule, payload) ==
    /\ app.state = "running"
    /\ loops.listener \in {"running", "stopping"}
    /\ enqueue_command(HandlerCommand(rule), HandlerArgs(rule, payload))
    /\ loops' = [loops EXCEPT !.listener = IF @ = "stopping" THEN "exited" ELSE @]
    /\ UNCHANGED <<app, teardown, tk>>
    /\ UNCHANGED notApp

\* SignalHandler._handle_signal, run by the presentation thread: the log
\* entry, then self.command_processor.enqueue_command(...). The object
\* _setup_signal_handler passed as command_processor is the application's
\* logger (SignalHandler(self, self.logger)), and a Logger has no
\* enqueue_command: the attribute lookup raises AttributeError, nothing is put
\* on the queue, and the exception leaves root.mainloop(), which ends start()
\* and the process. (Raised while a Tk callback runs Python code, it is caught
\* and reported there and no state changes at all.)
HandleSignal ==
    /\ app.state = "running"
    /\ app' = [app EXCEPT !.state = "exited", !.signal = "AttributeError"]
    /\ UNCHANGED <<teardown, cp, tk, hist, loops>>
    /\ UNCHANGED notApp

\* a worker loop observes its stop event and ends
ListenerExit ==
    /\ loops.listener = "stopping"
    /\ loops' = [loops EXCEPT !.listener = "exited"]
    /\ UNCHANGED <<app, teardown, cp, tk, hist>>
    /\ UNCHANGED notApp

ResponderExit ==
    /\ loops.responder = "stopping"
    /\ loops' = [loops EXCEPT !.responder = "exited"]
    /\ UNCHANGED <<app, teardown, cp, tk, hist>>
    /\ UNCHANGED notApp

\* the dequeue worker thread of the CommandProcessor (a daemon thread)
WorkerStep ==
    /\ app.state = "running"
    /\ \/ WorkerLoop
       \/ WorkerGet
       \/ WorkerAfter
       \/ WorkerTaskDone
    /\ UNCHANGED <<app, teardown, hist, loops>>
    /\ UNCHANGED notApp

\* handle_video_control and handle_timer_control read data[1..3] first: a
\* shorter payload raises IndexError before anything else is done
Raises(c) ==
    c.name \in {"handle_video_control", "handle_timer_control"} /\ c.data = "short"

\* an exception that ends the presentation thread's callback loop
PendingDropped(q, c) == IF Raises(c) THEN <<>> ELSE Tail(q)

\* the after(0) callbacks pending once the oldest one, c, has run:
\* _execute_command catches every Exception, so the others stay scheduled
PendingAfter(q, c) == Tail(q)

\* _execute_command: try: command(*args) except Exception: log the error
ExecuteCommand(a, td, c) ==
    IF Raises(c) THEN [app |-> a, teardown |-> td] ELSE RunCommand(a, td, c.name)

\* the Tk loop runs the oldest after(0) callback: _execute_command(cmd, *args)
MainRunCommand ==
    /\ app.state = "running"
    /\ tk.afterQueue # <<>>
    /\ LET c == Head(tk.afterQueue)
           r == ExecuteCommand(app, teardown, c)
       IN /\ tk' = [tk EXCEPT !.afterQueue = PendingAfter(@, c)]
          /\ hist' = [hist EXCEPT !.executed = Append(@, c)]
          /\ app' = r.app
          /\ teardown' = r.teardown
    /\ UNCHANGED <<cp, loops>>
    /\ UNCHANGED notApp

\* key bindings of _setup_ui: <r> restart_app, <q> shutdown_app
KeyPress(key) ==
    /\ app.state = "running"
    /\ app.keys < MaxKeys
    /\ LET a == [app EXCEPT !.keys = @ + 1]
           r == IF key = "r" THEN restart_app(a, teardown) ELSE shutdown_app(a, teardown)
       IN /\ app' = r.app
          /\ teardown' = r.teardown
    /\ UNCHANGED <<cp, tk, hist, loops>>
    /\ UNCHANGED notApp

(***************************************************************************)
(* Application: the teardown thread (_cleanup_and_execute_action)          *)
(***************************************************************************)
SetPc(i, pc) == [teardown EXCEPT ![i].pc = pc]

\* an order of the try block in which the timer is stopped before the listener
StepAfterTimerEarly(step) ==
    CASE step = "stop_processing" -> "timer_stop"
      [] step = "timer_stop" -> "stop_listener"
      [] step = "stop_listener" -> "stop_responder"
      [] step = "stop_responder" -> "schedule"

\* the statement that follows a statement of the try block (lines 197-203)
StepAfter(step) ==
    CASE step = "stop_processing" -> "stop_listener"
      [] step = "stop_listener" -> "stop_responder"
      [] step = "stop_responder" -> "timer_stop"
      [] step = "timer_stop" -> "schedule"

RemoveAt(s, i) == SubSeq(s, 1, i - 1) \o SubSeq(s, i + 1, Len(s))

\* command_processor.stop_processing(): with self.lock: if self.processing:
\*     self.processing = False; self.command_queue.join()
\* While the call waits in join(), atStop remembers how many commands had
\* been enqueued when it was made.
TdStopProcessing(i) ==
    /\ teardown[i].pc = "stop_processing"
    /\ cp.lock = "free"
    /\ IF cp.processing
       THEN /\ cp' = [cp EXCEPT !.processing = FALSE, !.lock = "held"]
            /\ teardown' = [teardown EXCEPT ![i].pc = "queue_join",
                                            ![i].atStop = Len(hist.enqueued)]
       ELSE /\ teardown' = SetPc(i, StepAfter("stop_processing"))
            /\ UNCHANGED cp
    /\ UNCHANGED <<app, tk, hist, loops>>

\* queue.Queue.join(): returns once every put() item has been task_done()
QueueJoinReturns(p) == p.unfinished_tasks = 0

\* stop_processing after the join: leave the `with self.lock` block
TdQueueJoin(i) ==
    /\ teardown[i].pc = "queue_join"
    /\ QueueJoinReturns(cp)
    /\ cp' = [cp EXCEPT !.lock = "free"]
    /\ teardown' = [teardown EXCEPT ![i].pc = StepAfter("stop_processing"),
                                    ![i].atStop = 0]
    /\ UNCHANGED <<app, tk, hist, loops>>

\* a worker loop after stop_can_listener / stop_can_responder: the stop event
\* is set and the join (timeout 2 s) returned, with the loop ended or not
AfterStop(loop) == IF loop = "running" THEN {"stopping", "exited"} ELSE {loop}

TdStopListener(i) ==
    /\ teardown[i].pc = "stop_listener"
    /\ \E l \in AfterStop(loops.listener) : loops' = [loops EXCEPT !.listener = l]
    /\ teardown' = SetPc(i, StepAfter("stop_listener"))
    /\ UNCHANGED <<app, cp, tk, hist>>

\* can_manager.stop_can_responder(), then can_module.shutdown(), which
\* catches every exception itself
TdStopResponder(i) ==
    /\ teardown[i].pc = "stop_responder"
    /\ \E l \in AfterStop(loops.responder) : loops' = [loops EXCEPT !.responder = l]
    /\ teardown' = SetPc(i, StepAfter("stop_responder"))
    /\ UNCHANGED <<app, cp, tk, hist>>

\* countdown_timer.stop(): a Tk call made from the teardown thread; when it
\* raises, the only `except Exception` of the try block is entered
TdTimerStop(i) ==
    /\ teardown[i].pc = "timer_stop"
    /\ \E raised \in BOOLEAN :
          teardown' = SetPc(i, IF raised THEN "finally" ELSE StepAfter("timer_stop"))
    /\ UNCHANGED <<app, cp, tk, hist, loops>>

\* self.root.after(100, cleanup_action)
TdSchedule(i) ==
    /\ teardown[i].pc = "schedule"
    /\ \E raised \in BOOLEAN :
          tk' = IF raised THEN tk
                ELSE [tk EXCEPT !.terminalQueue = Append(@, teardown[i].action)]
    /\ teardown' = SetPc(i, "finally")
    /\ UNCHANGED <<app, cp, hist, loops>>

\* the flags after the finally block of _cleanup_and_execute_action
FinallyKeepsFlags(a, cleanup_action) == a

FinallyReset(a, cleanup_action) ==
    IF cleanup_action \in {"_shutdown_ui_cleanup", "_system_shutdown_cleanup"}
    THEN [a EXCEPT !.shutdown_in_progress = FALSE]
    ELSE [a EXCEPT !.restart_in_progress = FALSE]

\* finally: with self.lock: reset the flag; the thread then ends
TdFinally(i) ==
    /\ teardown[i].pc = "finally"
    /\ app' = FinallyReset(app, teardown[i].action)
    /\ teardown' = RemoveAt(teardown, i)
    /\ UNCHANGED <<cp, tk, hist, loops>>

TeardownStep ==
    /\ app.state = "running"
    /\ \E i \in DOMAIN teardown :
          \/ TdStopProcessing(i)
          \/ TdQueueJoin(i)
          \/ TdStopListener(i)
          \/ TdStopResponder(i)
          \/ TdTimerStop(i)
          \/ TdSchedule(i)
          \/ TdFinally(i)
    /\ UNCHANGED notApp

(***************************************************************************)
(* Application: terminal actions on the presentation thread                *)
(***************************************************************************)
\* the Tk loop fires a due after(100, cleanup_action): _cleanup_ui begins with
\* root.quit() and root.update(), which runs the callbacks still pending
MainTerminalBegin ==
    /\ app.state = "running"
    /\ tk.terminalQueue # <<>>
    /\ app' = [app EXCEPT !.mainThread = Head(tk.terminalQueue)]
    /\ tk' = [tk EXCEPT !.terminalQueue = Tail(@)]
    /\ UNCHANGED <<teardown, cp, hist, loops>>
    /\ UNCHANGED notApp

\* _shutdown_ui_cleanup / _system_shutdown_cleanup: root.destroy(), sys.exit(0)
MainTerminalExit ==
    /\ app.state = "running"
    /\ app.mainThread \in {"_shutdown_ui_cleanup", "_system_shutdown_cleanup"}
    /\ tk.afterQueue = <<>>
    /\ app' = [app EXCEPT !.state = "exited"]
    /\ UNCHANGED <<teardown, cp, tk, hist, loops>>
    /\ UNCHANGED notApp

\* _restart_ui_cleanup: root.destroy(), init_application() builds a new root,
\* CommandProcessor and CANManager, start() starts their threads
MainTerminalRestart ==
    /\ app.state = "running"
    /\ app.mainThread = "_restart_ui_cleanup"
    /\ tk.afterQueue = <<>>
    /\ app.restarts < MaxRestarts
    /\ app' = [app EXCEPT !.restarts = @ + 1, !.mainThread = "mainloop"]
    /\ cp' = process_queue(NewCommandProcessor)
    /\ tk' = [afterQueue |-> <<>>, terminalQueue |-> <<>>]
    /\ hist' = [hist EXCEPT !.enqueued = <<>>, !.executed = <<>>]
    /\ loops' = [listener |-> "running", responder |-> "running"]
    /\ UNCHANGED teardown
    /\ UNCHANGED notApp

(***************************************************************************)
(* Specification of the application                                        *)
(***************************************************************************)
vars == <<appVars, mt, rs, rt, lm, lk, ls>>

Init ==
    /\ InitApp
    /\ mt = NoMatchRun
    /\ rs = NoResponderRun
    /\ rt = NoRetryRun
    /\ lm = NoManagerRun
    /\ lk = NoLinkRun
    /\ ls = NoListenerRun

Next ==
    \/ AppStart
    \/ \E rule \in DispatchedRules : ListenerDispatch(rule, "full")
    \/ HandleSignal
    \/ ListenerExit
    \/ ResponderExit
    \/ WorkerStep
    \/ MainRunCommand
    \/ \E key \in {"r", "q"} : KeyPress(key)
    \/ TeardownStep
    \/ MainTerminalBegin
    \/ MainTerminalExit
    \/ MainTerminalRestart

Spec == Init /\ [][Next]_vars

\* the commands alone: frames with full and with short payloads and signals,
\* no key presses (lifecycle requests arrive as commands only)
NextCommands ==
    \/ AppStart
    \/ \E rule \in DispatchedRules \cup {"restart"}, payload \in PayloadKinds :
          ListenerDispatch(rule, payload)
    \/ HandleSignal
    \/ ListenerExit
    \/ ResponderExit
    \/ WorkerStep
    \/ MainRunCommand
    \/ TeardownStep
    \/ MainTerminalBegin
    \/ MainTerminalExit
    \/ MainTerminalRestart

SpecCommands == Init /\ [][NextCommands]_vars

\* the scheduler runs every thread that can take a step: the dequeue worker,
\* the teardown thread, the Tk loop and the CAN worker loops
FairSpec ==
    /\ Init
    /\ [][Next]_vars
    /\ WF_vars(WorkerStep)
    /\ WF_vars(TeardownStep)
    /\ WF_vars(MainRunCommand)
    /\ WF_vars(ListenerExit)
    /\ WF_vars(ResponderExit)

(***************************************************************************)
(* Properties of the application and the command queue                     *)
(***************************************************************************)
\* the command a worker has taken from the queue and not yet handed to Tk
HeldByWorker == IF cp.worker.pc = "after" THEN <<cp.worker.cmd>> ELSE <<>>

InProgress == app.restart_in_progress \/ app.shutdown_in_progress

\* a step in which restart_app, shutdown_app or shutdown_system is called: a
\* key press, or the presentation thread running such a command
RequestStep ==
    \/ app'.keys # app.keys
    \/ /\ Len(hist'.executed) = Len(hist.executed) + 1
       /\ hist'.executed[Len(hist'.executed)].name \in
              {"restart_app", "shutdown_app", "shutdown_system"}

\* C2: a restart or shutdown request made while a restart or shutdown is in
\* progress leaves both lifecycle flags unchanged and starts no teardown thread.
C2_RequestInProgressIsNoOp ==
    [][(RequestStep /\ InProgress) =>
          /\ app'.restart_in_progress = app.restart_in_progress
          /\ app'.shutdown_in_progress = app.shutdown_in_progress
          /\ teardown' = teardown]_vars

\* C2 witness: a shutdown_system request was rejected while a restart is in
\* progress, with its teardown thread still at work
C2_Witness ==
    /\ app.restart_in_progress
    /\ app.lastRequest = [action |-> "_system_shutdown_cleanup", accepted |-> FALSE]
    /\ Len(teardown) = 1

\* C3: every accepted restart or shutdown request eventually brings both
\* lifecycle flags back to false (unless the process has exited meanwhile).
C3_EventuallyIdle == InProgress ~> (~InProgress \/ app.state = "exited")

(***************************************************************************)
(* CANModule: the filter matcher                                           *)
(***************************************************************************)
\* rules in a filter list, bytes in a frame payload
MaxRules == 2
MaxPayloadLen == 2

\* A hex string of the configuration is the sequence of its digits' values;
\* NotHex stands for a character that is no hexadecimal digit.
NotHex == 16
ValueError == -1

\* int(x, 16): the value of the digits, ValueError for an empty string or a
\* character that is no hex digit
RECURSIVE HexValue(_)
HexValue(digits) ==
    IF digits = <<>> THEN 0
    ELSE HexValue(SubSeq(digits, 1, Len(digits) - 1)) * 16 + digits[Len(digits)]

ParseHex(digits) ==
    IF digits = <<>> \/ \E i \in DOMAIN digits : digits[i] = NotHex
    THEN ValueError
    ELSE HexValue(digits)

\* payload conditions: "*", None, or a hex string
Wild == [kind |-> "*", digits |-> <<>>]
NoneCond == [kind |-> "None", digits |-> <<>>]
Hex(digits) == [kind |-> "hex", digits |-> digits]

\* the loop over enumerate(filter["payload_conditions"]), from position
\* `index` on: "match" when it runs to the end, "mismatch" at the first
\* differing byte, or the exception that leaves it
RECURSIVE CheckPayloadConditions(_, _, _)
CheckPayloadConditions(data, conds, index) ==
    IF index > Len(conds) THEN "match"
    ELSE LET expected_value == conds[index] IN
         IF expected_value.kind # "*" /\ expected_value.kind # "None"
         THEN IF index > Len(data) THEN "IndexError"
              ELSE IF ParseHex(expected_value.digits) = ValueError THEN "ValueError"
              ELSE IF data[index] # ParseHex(expected_value.digits) THEN "mismatch"
              ELSE CheckPayloadConditions(data, conds, index + 1)
         ELSE CheckPayloadConditions(data, conds, index + 1)

\* the outcome of the try block of _is_message_matching_filter
MatchOutcome(message, filter) ==
    LET low == ParseHex(filter.id_range[1])
        high == ParseHex(filter.id_range[2])
    IN IF low = ValueError \/ high = ValueError THEN "ValueError"
       ELSE IF ~(low <= message.arbitration_id /\ message.arbitration_id <= high)
            THEN "mismatch"
       ELSE CheckPayloadConditions(message.data, filter.payload_conditions, 1)

\* _is_message_matching_filter: ValueError and IndexError are caught and
\* logged, and the filter is rejected
IsMessageMatchingFilter(message, filter) == MatchOutcome(message, filter) = "match"

\* a matcher that keeps the last matching filter instead of the first
MatchLastFilter(message, filters) ==
    LET hits == {i \in DOMAIN filters : IsMessageMatchingFilter(message, filters[i])}
    IN IF hits = {} THEN "None"
       ELSE filters[CHOOSE i \in hits : \A j \in hits : j <= i].name

\* _match_filter_to_handler: the name of the first filter that matches
RECURSIVE MatchFrom(_, _, _)
MatchFrom(message, filters, i) ==
    IF i > Len(filters) THEN "None"
    ELSE IF IsMessageMatchingFilter(message, filters[i]) THEN filters[i].name
    ELSE MatchFrom(message, filters, i + 1)

MatchFilterToHandler(message, filters) == MatchFrom(message, filters, 1)

\* inputs of the matcher's specification
SeqsUpTo(S, n) == UNION {[1..k -> S] : k \in 0..n}

FrameIds == {1, 2, 16}
Payloads == SeqsUpTo({1, 2}, MaxPayloadLen) \ {<<>>}
Frames == [arbitration_id : FrameIds, data : Payloads]

IdRanges == {<<<<1>>, <<2>>>>, <<<<2>>, <<1, 0>>>>, <<<<NotHex>>, <<2>>>>}
ConditionLists == {<<Wild, Wild>>, <<Hex(<<1>>), Wild>>, <<NoneCond, Hex(<<0, 2>>)>>,
                   <<Wild, Hex(<<NotHex>>)>>}
Rules == [name : {"video_control", "timer_control"}, id_range : IdRanges,
          payload_conditions : ConditionLists]

InitMatch ==
    /\ InitApp
    /\ \E f \in Frames, fs \in SeqsUpTo(Rules, MaxRules) :
        mt = [pc |-> "received", message |-> f, filters |-> fs, handler_name |-> "None",
              invoked |-> <<>>,       \* handler calls: name, id and payload passed
              raised |-> FALSE]       \* an exception left handle_can_message
    /\ rs = NoResponderRun
    /\ rt = NoRetryRun
    /\ lm = NoManagerRun
    /\ lk = NoLinkRun
    /\ ls = NoListenerRun

\* _process_message: handler_name = self._match_filter_to_handler(message, filters)
MatchStep ==
    /\ mt.pc = "received"
    /\ mt' = [mt EXCEPT !.pc = "matched",
                        !.handler_name = MatchFilterToHandler(mt.message, mt.filters)]
    /\ UNCHANGED <<appVars, rs, rt, lm, lk, ls>>

\* the keys of the table _setup_can_message_handlers returns
HandlerTable == {"video_control", "timer_control", "restart", "shutdown"}

\* a dispatcher that calls the handler of every rule in the list
CallEveryHandler(handler_name, message, filters) ==
    [i \in DOMAIN filters |->
        [handler |-> filters[i].name, id |-> message.arbitration_id, data |-> message.data]]

\* _process_message, lines 142-145: if handler_name: handler =
\* can_filter_to_handler.get(handler_name); if handler: handler(id, data)
HandlerCalls(handler_name, message, filters) ==
    IF handler_name # "None" /\ handler_name \in HandlerTable
    THEN <<[handler |-> handler_name, id |-> message.arbitration_id, data |-> message.data]>>
    ELSE <<>>

\* the rest of _process_message and the return of handle_can_message: the
\* handlers only enqueue a command, so nothing is raised
DispatchStep ==
    /\ mt.pc = "matched"
    /\ mt' = [mt EXCEPT !.pc = "handled",
                        !.invoked = HandlerCalls(mt.handler_name, mt.message, mt.filters)]
    /\ UNCHANGED <<appVars, rs, rt, lm, lk, ls>>

NextMatch ==
    \/ MatchStep
    \/ DispatchStep

SpecMatch == InitMatch /\ [][NextMatch]_vars

\* a rule qualifies for a frame: its id range contains the frame id and every
\* condition that is no wildcard equals the payload byte at its position
Qualifies(message, rule) ==
    /\ ParseHex(rule.id_range[1]) # ValueError
    /\ ParseHex(rule.id_range[2]) # ValueError
    /\ ParseHex(rule.id_range[1]) <= message.arbitration_id
    /\ message.arbitration_id <= ParseHex(rule.id_range[2])
    /\ \A k \in DOMAIN rule.payload_conditions :
          rule.payload_conditions[k].kind = "hex" =>
              /\ k \in DOMAIN message.data
              /\ message.data[k] = ParseHex(rule.payload_conditions[k].digits)

\* C4: the matcher returns the name of the first rule, in list order, that
\* qualifies for the frame, and None when no rule qualifies.
C4_FirstQualifyingRule ==
    mt.pc = "matched" =>
        LET q == {i \in DOMAIN mt.filters : Qualifies(mt.message, mt.filters[i])}
        IN IF q = {} THEN mt.handler_name = "None"
           ELSE \E i \in q : /\ \A j \in q : i <= j
                             /\ mt.handler_name = mt.filters[i].name

\* C4 witness: two rules with different names qualify and the first one is
\* returned, although the frame payload is shorter than the condition list
C4_Witness ==
    /\ mt.pc = "matched"
    /\ Len(mt.filters) = 2
    /\ Len(mt.message.data) = 1
    /\ Qualifies(mt.message, mt.filters[1])
    /\ Qualifies(mt.message, mt.filters[2])
    /\ mt.filters[1].name # mt.filters[2].name
    /\ mt.handler_name = mt.filters[1].name

(***************************************************************************)
(* CANManager: the responder loop (_send_periodic_responses)               *)
(***************************************************************************)
\* the clock runs from the start of the responder up to MaxTime seconds
MaxTime == 5
\* calls of trigger_immediate_response
MaxTriggers == 2

\* config.get("responder_initial_delay", 2), config.get("responder_periodic_interval", 2)
responder_initial_delay == 2
responder_periodic_interval == 2
\* max_retries of the responder loop
responder_max_retries == 5

\* start_can_responder at time t0: the thread is started and has not yet run
InitResponder ==
    /\ InitApp
    /\ mt = NoMatchRun
    /\ rt = NoRetryRun
    /\ lm = NoManagerRun
    /\ lk = NoLinkRun
    /\ ls = NoListenerRun
    /\ \E t0 \in {0, 1} :
        rs = [pc |-> "begin", now |-> t0, t0 |-> t0,
              immediate_response_event |-> FALSE, stop_event |-> FALSE,
              current_time |-> 0, next_send_time |-> 0, retry_count |-> 0,
              sent |-> <<>>,          \* frames the transport accepted: time and branch
              failed |-> FALSE,       \* some send_message call raised
              deadline |-> 0,         \* the first value of next_send_time
              triggers |-> 0,         \* calls of trigger_immediate_response
              batches |-> 0,          \* calls that found the latch clear
              consumed |-> 0,         \* times the loop cleared the latch
              immSends |-> 0,         \* send_message calls of the immediate branch
              attempts |-> 0,         \* send_message calls made for the latest frame
              iterFrames |-> 0,       \* frames sent in the current iteration
              iterImmediate |-> FALSE] \* the current iteration sent the immediate frame

notResponder == <<appVars, mt, rt, lm, lk, ls>>

\* time passes, at any point of the loop
Tick ==
    /\ rs.now < MaxTime
    /\ rs' = [rs EXCEPT !.now = @ + 1]
    /\ UNCHANGED notResponder

\* trigger_immediate_response, from any thread
trigger_immediate_response ==
    /\ rs.triggers < MaxTriggers
    /\ rs.pc # "begin"
    /\ rs' = [rs EXCEPT !.immediate_response_event = TRUE,
                        !.triggers = @ + 1,
                        !.batches = IF rs.immediate_response_event THEN @ ELSE @ + 1]
    /\ UNCHANGED notResponder

\* stop_can_responder sets the stop event
ResponderStopRequested ==
    /\ rs.pc \notin {"begin", "done"}
    /\ ~rs.stop_event
    /\ rs' = [rs EXCEPT !.stop_event = TRUE]
    /\ UNCHANGED notResponder

\* a start that forgets the initial delay
InitialNextSendTimeNoDelay(now) == now

\* line 124: next_send_time = time.time() + self.responder_initial_delay
InitialNextSendTime(now) == now + responder_initial_delay

ResponderBegin ==
    /\ rs.pc = "begin"
    /\ rs' = [rs EXCEPT !.pc = "loop",
                        !.next_send_time = InitialNextSendTime(rs.now),
                        !.deadline = InitialNextSendTime(rs.now),
                        !.retry_count = 0]
    /\ UNCHANGED notResponder

\* line 129: while not self.can_responder_stop_event.is_set()
ResponderLoopCheck ==
    /\ rs.pc = "loop"
    /\ rs' = [rs EXCEPT !.pc = IF rs.stop_event THEN "done" ELSE "read_time"]
    /\ UNCHANGED notResponder

\* line 131: current_time = time.time()
ResponderReadTime ==
    /\ rs.pc = "read_time"
    /\ rs' = [rs EXCEPT !.pc = "check_latch", !.current_time = rs.now,
                        !.iterFrames = 0, !.iterImmediate = FALSE]
    /\ UNCHANGED notResponder

\* line 133: if self.immediate_response_event.is_set()
ResponderCheckLatch ==
    /\ rs.pc = "check_latch"
    /\ rs' = [rs EXCEPT !.pc = IF rs.immediate_response_event THEN "clear"
                                ELSE "check_periodic"]
    /\ UNCHANGED notResponder

\* a loop that leaves the latch as it is
LatchLeftSet(latch) == latch

\* line 134: self.immediate_response_event.clear()
LatchCleared(latch) == FALSE

ResponderClearLatch ==
    /\ rs.pc = "clear"
    /\ rs' = [rs EXCEPT !.pc = "immediate_send",
                        !.immediate_response_event = LatchCleared(@),
                        !.consumed = @ + 1]
    /\ UNCHANGED notResponder

\* can_module.send_message: the frame goes out, or CanError is raised
SendOutcomes == {"sent", "CanError"}

\* lines 135-139: status read, send_message, retry_count = 0
ResponderImmediateSend ==
    /\ rs.pc = "immediate_send"
    /\ \E outcome \in SendOutcomes :
        IF outcome = "sent"
        THEN rs' = [rs EXCEPT !.pc = "immediate_reset",
                              !.sent = Append(@, [time |-> rs.now, branch |-> "immediate"]),
                              !.immSends = @ + 1, !.retry_count = 0,
                              !.attempts = 1,
                              !.iterFrames = @ + 1, !.iterImmediate = TRUE]
        ELSE rs' = [rs EXCEPT !.pc = "except", !.immSends = @ + 1, !.failed = TRUE,
                              !.attempts = 1]
    /\ UNCHANGED notResponder

\* an immediate branch that leaves the periodic deadline where it was
NextSendTimeKept(now, old) == old

\* line 141: next_send_time = time.time() + self.responder_periodic_interval
NextAfterImmediate(now, old) == now + responder_periodic_interval

ResponderImmediateReset ==
    /\ rs.pc = "immediate_reset"
    /\ rs' = [rs EXCEPT !.pc = "check_periodic",
                        !.next_send_time = NextAfterImmediate(rs.now, @)]
    /\ UNCHANGED notResponder

\* a periodic branch that is taken in every iteration
PeriodicAlwaysDue(current_time, next_send_time) == TRUE

\* line 143: current_time >= next_send_time
PeriodicDue(current_time, next_send_time) == current_time >= next_send_time

\* line 143: if current_time >= next_send_time (a plain if, after the first)
ResponderCheckPeriodic ==
    /\ rs.pc = "check_periodic"
    /\ rs' = [rs EXCEPT !.pc = IF PeriodicDue(rs.current_time, rs.next_send_time)
                                THEN "periodic_send" ELSE "sleep"]
    /\ UNCHANGED notResponder

\* lines 144-148
ResponderPeriodicSend ==
    /\ rs.pc = "periodic_send"
    /\ \E outcome \in SendOutcomes :
        IF outcome = "sent"
        THEN rs' = [rs EXCEPT !.pc = "periodic_reset",
                              !.sent = Append(@, [time |-> rs.now, branch |-> "periodic"]),
                              !.retry_count = 0, !.attempts = 1,
                              !.iterFrames = @ + 1]
        ELSE rs' = [rs EXCEPT !.pc = "except", !.failed = TRUE, !.attempts = 1]
    /\ UNCHANGED notResponder

\* a periodic branch that leaves the deadline at the time of the send
NextSendTimeNow(now, old) == now

\* line 150: next_send_time = time.time() + self.responder_periodic_interval
NextAfterPeriodic(now, old) == now + responder_periodic_interval

ResponderPeriodicReset ==
    /\ rs.pc = "periodic_reset"
    /\ rs' = [rs EXCEPT !.pc = "sleep",
                        !.next_send_time = NextAfterPeriodic(rs.now, @)]
    /\ UNCHANGED notResponder

\* lines 152-157: count the failure, leave the loop at the fifth in a row
ResponderExcept ==
    /\ rs.pc = "except"
    /\ rs' = [rs EXCEPT !.retry_count = @ + 1,
                        !.pc = IF rs.retry_count + 1 >= responder_max_retries
                               THEN "done" ELSE "sleep"]
    /\ UNCHANGED notResponder

\* line 159: time.sleep(self.responder_poll_interval)
ResponderSleep ==
    /\ rs.pc = "sleep"
    /\ rs' = [rs EXCEPT !.pc = "loop"]
    /\ UNCHANGED notResponder

NextResponder ==
    \/ Tick
    \/ trigger_immediate_response
    \/ ResponderStopRequested
    \/ ResponderBegin
    \/ ResponderLoopCheck
    \/ ResponderReadTime
    \/ ResponderCheckLatch
    \/ ResponderClearLatch
    \/ ResponderImmediateSend
    \/ ResponderImmediateReset
    \/ ResponderCheckPeriodic
    \/ ResponderPeriodicSend
    \/ ResponderPeriodicReset
    \/ ResponderExcept
    \/ ResponderSleep

SpecResponder == InitResponder /\ [][NextResponder]_vars

\* the steps of the responder thread itself
ResponderThreadStep ==
    \/ ResponderBegin
    \/ ResponderLoopCheck
    \/ ResponderReadTime
    \/ ResponderCheckLatch
    \/ ResponderClearLatch
    \/ ResponderImmediateSend
    \/ ResponderImmediateReset
    \/ ResponderCheckPeriodic
    \/ ResponderPeriodicSend
    \/ ResponderPeriodicReset
    \/ ResponderExcept
    \/ ResponderSleep

\* the responder is a thread of its own: started, it keeps being scheduled
FairSpecResponder ==
    /\ InitResponder
    /\ [][NextResponder]_vars
    /\ WF_vars(ResponderThreadStep)

LatchBit == IF rs.immediate_response_event THEN 1 ELSE 0

\* C5: the immediate-response latch is idempotent: the calls of
\* trigger_immediate_response made before the loop clears the latch count as
\* one (a batch), and every cleared latch is answered by exactly one
\* immediate send_message call, however many calls the batch holds.
C5_LatchIdempotent ==
    /\ rs.consumed = rs.batches - LatchBit
    /\ rs.immSends = rs.consumed - (IF rs.pc = "immediate_send" THEN 1 ELSE 0)
    /\ rs.batches <= rs.triggers

\* C5 witness: two triggers before the latch was consumed, one immediate frame
C5_Witness ==
    /\ rs.triggers = 2
    /\ rs.batches = 1
    /\ rs.consumed = 1
    /\ rs.immSends = 1
    /\ rs.pc = "sleep"
    /\ Len(rs.sent) = 1
    /\ rs.sent[1].branch = "immediate"

\* C9: a responder started at t0 that is never triggered sends no frame
\* before t0 + initial_delay, sends at most one frame for that deadline (none
\* further before deadline + periodic_interval), and, when the transport does
\* not fail, has sent a frame by the end of the first iteration that read a
\* time at or after the deadline.
C9_InitialDelay ==
    (rs.pc # "begin" /\ rs.triggers = 0) =>
        /\ \A i \in DOMAIN rs.sent : rs.sent[i].time >= rs.t0 + responder_initial_delay
        /\ Cardinality({i \in DOMAIN rs.sent :
                          rs.sent[i].time < rs.deadline + responder_periodic_interval}) <= 1
        /\ (~rs.failed /\ rs.pc = "sleep" /\ rs.current_time >= rs.deadline)
              => rs.sent # <<>>

\* C9 witness: started at t0 = 1, never triggered, exactly one frame, sent at
\* t0 + initial_delay, and the clock has passed that time
C9_Witness ==
    /\ rs.t0 = 1
    /\ rs.triggers = 0
    /\ ~rs.failed
    /\ rs.pc = "sleep"
    /\ rs.now = rs.t0 + responder_initial_delay + 1
    /\ rs.sent = <<[time |-> rs.t0 + responder_initial_delay, branch |-> "periodic"]>>

\* C10: an iteration that finds the latch set clears it before it sends, sends
\* one frame and no second one, and leaves next_send_time at the time read
\* after that send plus periodic_interval; no periodic frame follows an
\* immediate frame by less than periodic_interval.
C10_ImmediateReschedules ==
    /\ rs.iterFrames <= 1
    /\ rs.immSends <= rs.consumed
    /\ (rs.iterImmediate /\ rs.pc # "immediate_reset") =>
          /\ rs.sent[Len(rs.sent)].branch = "immediate"
          /\ rs.next_send_time >= rs.sent[Len(rs.sent)].time + responder_periodic_interval
          /\ rs.next_send_time <= rs.now + responder_periodic_interval
    /\ \A i, j \in DOMAIN rs.sent :
          (i < j /\ rs.sent[i].branch = "immediate" /\ rs.sent[j].branch = "periodic")
              => rs.sent[j].time >= rs.sent[i].time + responder_periodic_interval

\* C10 witness: started at 0 (periodic deadline 2), triggered at 1: an immediate
\* frame at 1, no frame at 2, the next periodic frame at 3
C10_Witness ==
    /\ rs.t0 = 0
    /\ rs.deadline = 2
    /\ ~rs.failed
    /\ rs.sent = <<[time |-> 1, branch |-> "immediate"], [time |-> 3, branch |-> "periodic"]>>

(***************************************************************************)
(* CANManager._send_can_message_with_retry                                 *)
(***************************************************************************)
\* the largest max_retries argument tried
MaxRetriesArg == 4
\* the default of the max_retries parameter
default_max_retries == 3

\* the exceptions the except clause of the retry loop catches
CaughtNothing(exc) == FALSE

\* line 175: except CanError
CaughtByRetry(exc) == exc = "CanError"

\* a loop that goes round once more than max_retries allows
AttemptsLeftOneMore(attempt, max_retries) == attempt <= max_retries

\* line 166: while attempt < max_retries
AttemptsLeft(attempt, max_retries) == attempt < max_retries

Count(log, level) == Cardinality({i \in DOMAIN log : log[i].level = level})

InitRetry ==
    /\ InitApp
    /\ mt = NoMatchRun
    /\ rs = NoResponderRun
    /\ lm = NoManagerRun
    /\ lk = NoLinkRun
    /\ ls = NoListenerRun
    /\ \E m \in 0..MaxRetriesArg, d \in {1, 2}, data \in {<<3, 0, 1, 0>>, <<3, 1, 2, 1>>} :
        rt = [pc |-> "while", max_retries |-> m, retry_delay |-> d,
              can_response_data |-> data, attempt |-> 0,
              sends |-> 0,        \* calls of can_module.send_message
              delivered |-> 0,    \* calls that put the frame on the bus
              slept |-> 0,        \* seconds spent in time.sleep
              log |-> <<>>]       \* log entries: logger and level

notRetry == <<appVars, mt, rs, lm, lk, ls>>

Logged(logger, level) == [logger |-> logger, level |-> level]

\* line 166; after the loop, line 187 logs the consolidated failure
RetryWhile ==
    /\ rt.pc = "while"
    /\ IF AttemptsLeft(rt.attempt, rt.max_retries)
       THEN rt' = [rt EXCEPT !.pc = "send"]
       ELSE rt' = [rt EXCEPT !.pc = "returned",
                             !.log = Append(@, Logged("can_manager", "critical"))]
    /\ UNCHANGED notRetry

\* line 169 with CANModule.send_message (lines 120-128): the frame is sent and
\* logged at debug level, or the bus raises CanError, which send_message logs
\* at error level and raises again
RetrySend ==
    /\ rt.pc = "send"
    /\ \E outcome \in SendOutcomes :
        IF outcome = "sent"
        THEN rt' = [rt EXCEPT !.pc = "sent", !.sends = @ + 1, !.delivered = @ + 1,
                              !.log = Append(@, Logged("can_module", "debug"))]
        ELSE rt' = [rt EXCEPT !.pc = IF CaughtByRetry(outcome) THEN "except" ELSE "raised",
                              !.sends = @ + 1,
                              !.log = Append(@, Logged("can_module", "error"))]
    /\ UNCHANGED notRetry

\* lines 170-174: info after retries, debug on the first attempt, return
RetrySent ==
    /\ rt.pc = "sent"
    /\ rt' = [rt EXCEPT !.pc = "returned",
                        !.log = Append(@, Logged("can_manager",
                                    IF rt.attempt > 0 THEN "info" ELSE "debug"))]
    /\ UNCHANGED notRetry

\* an except clause that reports every failure at error level
FailureLevelAlwaysError(attempt, max_retries) == "error"

\* lines 177-180: the level of the entry the except clause writes for the
\* failure of attempt number `attempt` (counted from 0), "none" for no entry
FailureLevel(attempt, max_retries) ==
    IF attempt = 0 THEN "warning"
    ELSE IF attempt = max_retries - 1 THEN "error"
    ELSE "none"

\* lines 175-184: warning for the first failure, error for the last one,
\* nothing for those between; attempt += 1; time.sleep(retry_delay)
RetryExcept ==
    /\ rt.pc = "except"
    /\ rt' = [rt EXCEPT !.pc = "while",
                        !.attempt = @ + 1,
                        !.slept = @ + rt.retry_delay,
                        !.log = IF FailureLevel(rt.attempt, rt.max_retries) = "none" THEN @
                                ELSE Append(@, Logged("can_manager",
                                         FailureLevel(rt.attempt, rt.max_retries)))]
    /\ UNCHANGED notRetry

NextRetry ==
    \/ RetryWhile
    \/ RetrySend
    \/ RetrySent
    \/ RetryExcept

SpecRetry == InitRetry /\ [][NextRetry]_vars

\* C6: with max_retries = 3 the call makes at most 3 send attempts, makes none
\* after a successful one, does not raise when the transport raises CanError,
\* and returns after three failures with exactly one critical log entry (and
\* with none when an attempt succeeded).
C6_BoundedRetry ==
    rt.max_retries = default_max_retries =>
        /\ rt.sends <= 3
        /\ rt.delivered <= 1
        /\ rt.delivered = 1 => rt.pc \in {"sent", "returned"}
        /\ rt.pc # "raised"
        /\ (rt.pc = "returned" /\ rt.delivered = 0) =>
              /\ rt.sends = 3
              /\ Count(rt.log, "critical") = 1
        /\ (rt.pc # "returned" \/ rt.delivered = 1) => Count(rt.log, "critical") = 0

\* C6 witness: three failed attempts, then the call has returned
C6_Witness ==
    /\ rt.max_retries = default_max_retries
    /\ rt.pc = "returned"
    /\ rt.sends = 3
    /\ rt.delivered = 0
    /\ Count(rt.log, "critical") = 1

(***************************************************************************)
(* CANManager: starting and stopping the worker threads                    *)
(***************************************************************************)
\* worker threads one manager creates
MaxThreads == 3
\* start_/stop_ calls made by the threads outside the manager
MaxCalls == 4
\* stop_ calls made by a handler or status callback inside a worker thread
MaxSelfStops == 2

Kinds == {"listener", "responder"}
\* threads that call the manager from outside: the presentation thread and a
\* teardown thread
Externals == {"main", "teardown"}
ThreadIds == 1..MaxThreads
\* self.can_listener_thread = None
NoThread == 0

NoCall == [pc |-> "idle", kind |-> "none"]
Unborn == [pc |-> "none", kind |-> "none"]

InitManager ==
    /\ InitApp
    /\ mt = NoMatchRun
    /\ rs = NoResponderRun
    /\ rt = NoRetryRun
    /\ lk = NoLinkRun
    /\ ls = NoListenerRun
    /\ lm = [thread |-> [k \in Kinds |-> NoThread],    \* can_listener_thread, can_responder_thread
             stop_event |-> [k \in Kinds |-> FALSE],
             threads |-> [t \in ThreadIds |-> Unborn], \* every Thread object created
             ext |-> [e \in Externals |-> NoCall],
             calls |-> 0, selfStops |-> 0,
             warned |-> {}]                            \* threads that logged "Skipping join"

notManager == <<appVars, mt, rs, rt, lk, ls>>

\* Thread.is_alive()
IsAlive(l, t) == t # NoThread /\ l.threads[t].pc \notin {"none", "dead"}

\* self.lock is held by a caller that waits inside `with self.lock`
LockHeld(l) ==
    \/ \E e \in Externals : l.ext[e].pc \in {"joining", "nested_stop"}
    \/ \E t \in ThreadIds : l.threads[t].pc = "joining"

Created(l) == Cardinality({t \in ThreadIds : l.threads[t].pc # "none"})
PendingStarts(l) == Cardinality({e \in Externals : l.ext[e].pc = "start_wait"})

\* a stop that joins whatever thread is registered
NeverCurrentThread(caller, thread) == FALSE

\* lines 56, 90: threading.current_thread() == self.can_listener_thread
IsCurrentThread(caller, thread) == caller = thread

\* the body of stop_can_listener / stop_can_responder under the lock, up to
\* the join: the manager afterwards, and whether the caller now joins
StopBody(l, k, caller) ==
    IF IsAlive(l, l.thread[k])
    THEN LET l1 == [l EXCEPT !.stop_event[k] = TRUE]
         IN IF ~IsCurrentThread(caller, l.thread[k])
            THEN [l |-> l1, joins |-> TRUE]
            ELSE [l |-> [l1 EXCEPT !.thread[k] = NoThread, !.warned = @ \cup {caller}],
                  joins |-> FALSE]
    ELSE [l |-> l, joins |-> FALSE]

\* a thread outside the manager calls start_can_listener / start_can_responder
ExtCallStart(e, k) ==
    /\ lm.ext[e].pc = "idle"
    /\ lm.calls < MaxCalls
    /\ Created(lm) + PendingStarts(lm) < MaxThreads
    /\ lm' = [lm EXCEPT !.ext[e] = [pc |-> "start_wait", kind |-> k], !.calls = @ + 1]
    /\ UNCHANGED notManager

\* ... or stop_can_listener / stop_can_responder
ExtCallStop(e, k) ==
    /\ lm.ext[e].pc = "idle"
    /\ lm.calls < MaxCalls
    /\ lm' = [lm EXCEPT !.ext[e] = [pc |-> "stop_wait", kind |-> k], !.calls = @ + 1]
    /\ UNCHANGED notManager

\* start_can_listener, lines 32-47: with the old thread alive it calls
\* stop_can_listener, which waits for the lock its caller holds; otherwise it
\* clears the stop event, creates and starts the thread
ExtStartBody(e) ==
    /\ lm.ext[e].pc = "start_wait"
    /\ ~LockHeld(lm)
    /\ LET k == lm.ext[e].kind IN
       IF IsAlive(lm, lm.thread[k])
       THEN lm' = [lm EXCEPT !.ext[e].pc = "nested_stop"]
       ELSE \E t \in ThreadIds :
              /\ lm.threads[t].pc = "none"
              /\ \A u \in ThreadIds : u < t => lm.threads[u].pc # "none"
              /\ lm' = [lm EXCEPT !.stop_event[k] = FALSE,
                                  !.thread[k] = t,
                                  !.threads[t] = [pc |-> "check", kind |-> k],
                                  !.ext[e] = NoCall]
    /\ UNCHANGED notManager

\* stop_can_listener, lines 51-59, called from outside
ExtStopBody(e) ==
    /\ lm.ext[e].pc = "stop_wait"
    /\ ~LockHeld(lm)
    /\ LET r == StopBody(lm, lm.ext[e].kind, NoThread) IN
       lm' = [r.l EXCEPT !.ext[e] = IF r.joins THEN [@ EXCEPT !.pc = "joining"] ELSE NoCall]
    /\ UNCHANGED notManager

\* join(timeout=2) returns when the thread has ended, or after two seconds
\* with the thread still alive: that takes a thread that is inside its loop
\* body (a receive of up to a second, then a handler of any duration, which may
\* itself wait for the manager's lock), not one about to test the stop event
JoinEnds(l, t) == ~IsAlive(l, t) \/ l.threads[t].pc \in {"handling", "stop_wait", "joining"}

\* lines 57-62: the join returns, the reference is reset and the lock released
ExtJoinReturn(e) ==
    /\ lm.ext[e].pc = "joining"
    /\ JoinEnds(lm, lm.thread[lm.ext[e].kind])
    /\ lm' = [lm EXCEPT !.thread[lm.ext[e].kind] = NoThread, !.ext[e] = NoCall]
    /\ UNCHANGED notManager

\* a loop that never looks at its stop event
StopEventIgnored(event) == FALSE

\* lines 108, 129: self.can_listener_stop_event.is_set()
StopEventIsSet(event) == event

\* the while condition of the worker loop (lines 108, 129)
WorkerCheck(t) ==
    /\ lm.threads[t].pc = "check"
    /\ lm' = [lm EXCEPT !.threads[t].pc =
                 IF StopEventIsSet(lm.stop_event[lm.threads[t].kind])
                 THEN "dead" ELSE "handling"]
    /\ UNCHANGED notManager

\* the loop body ends and the thread sleeps for the poll interval
WorkerHandled(t) ==
    /\ lm.threads[t].pc = "handling"
    /\ lm' = [lm EXCEPT !.threads[t].pc = "sleeping"]
    /\ UNCHANGED notManager

\* the loop gives up after max_retries consecutive errors
WorkerGivesUp(t) ==
    /\ lm.threads[t].pc = "handling"
    /\ lm' = [lm EXCEPT !.threads[t].pc = "dead"]
    /\ UNCHANGED notManager

\* a handler (a status callback) running in the worker thread calls
\* stop_can_listener (stop_can_responder)
WorkerCallsStop(t) ==
    /\ lm.threads[t].pc = "handling"
    /\ lm.selfStops < MaxSelfStops
    /\ lm' = [lm EXCEPT !.threads[t].pc = "stop_wait", !.selfStops = @ + 1]
    /\ UNCHANGED notManager

\* ... gets the lock and runs lines 51-62
WorkerStopBody(t) ==
    /\ lm.threads[t].pc = "stop_wait"
    /\ ~LockHeld(lm)
    /\ LET r == StopBody(lm, lm.threads[t].kind, t) IN
       lm' = [r.l EXCEPT !.threads[t].pc = IF r.joins THEN "joining" ELSE "sleeping"]
    /\ UNCHANGED notManager

\* ... and, when it joined another thread, returns from the join
WorkerJoinReturn(t) ==
    /\ lm.threads[t].pc = "joining"
    /\ JoinEnds(lm, lm.thread[lm.threads[t].kind])
    /\ lm' = [lm EXCEPT !.thread[lm.threads[t].kind] = NoThread,
                        !.threads[t].pc = "sleeping"]
    /\ UNCHANGED notManager

\* time.sleep(poll interval) ends
WorkerSlept(t) ==
    /\ lm.threads[t].pc = "sleeping"
    /\ lm' = [lm EXCEPT !.threads[t].pc = "check"]
    /\ UNCHANGED notManager

NextManager ==
    \/ \E e \in Externals, k \in Kinds : ExtCallStart(e, k)
    \/ \E e \in Externals, k \in Kinds : ExtCallStop(e, k)
    \/ \E e \in Externals : ExtStartBody(e)
    \/ \E e \in Externals : ExtStopBody(e)
    \/ \E e \in Externals : ExtJoinReturn(e)
    \/ \E t \in ThreadIds : WorkerCheck(t)
    \/ \E t \in ThreadIds : WorkerHandled(t)
    \/ \E t \in ThreadIds : WorkerGivesUp(t)
    \/ \E t \in ThreadIds : WorkerCallsStop(t)
    \/ \E t \in ThreadIds : WorkerStopBody(t)
    \/ \E t \in ThreadIds : WorkerJoinReturn(t)
    \/ \E t \in ThreadIds : WorkerSlept(t)

SpecManager == InitManager /\ [][NextManager]_vars

\* the steps of worker thread t
WorkerThreadStep(t) ==
    \/ WorkerCheck(t)
    \/ WorkerHandled(t)
    \/ WorkerGivesUp(t)
    \/ WorkerCallsStop(t)
    \/ WorkerStopBody(t)
    \/ WorkerJoinReturn(t)
    \/ WorkerSlept(t)

\* Application.start has started the listener and the responder: both threads
\* are registered and about to test their stop event
InitStop ==
    /\ InitApp
    /\ mt = NoMatchRun
    /\ rs = NoResponderRun
    /\ rt = NoRetryRun
    /\ lk = NoLinkRun
    /\ ls = NoListenerRun
    /\ lm = [thread |-> [k \in Kinds |-> IF k = "listener" THEN 1 ELSE 2],
             stop_event |-> [k \in Kinds |-> FALSE],
             threads |-> [t \in ThreadIds |->
                            IF t = 1 THEN [pc |-> "check", kind |-> "listener"]
                            ELSE IF t = 2 THEN [pc |-> "check", kind |-> "responder"]
                            ELSE Unborn],
             ext |-> [e \in Externals |-> NoCall],
             calls |-> 0, selfStops |-> 0,
             warned |-> {}]

\* the two loops and the stop calls made on them, from outside and from a
\* handler inside a worker
NextStop ==
    \/ \E e \in Externals, k \in Kinds : ExtCallStop(e, k)
    \/ \E e \in Externals : ExtStopBody(e)
    \/ \E e \in Externals : ExtJoinReturn(e)
    \/ \E t \in ThreadIds : WorkerCheck(t)
    \/ \E t \in ThreadIds : WorkerHandled(t)
    \/ \E t \in ThreadIds : WorkerGivesUp(t)
    \/ \E t \in ThreadIds : WorkerCallsStop(t)
    \/ \E t \in ThreadIds : WorkerStopBody(t)
    \/ \E t \in ThreadIds : WorkerSlept(t)

\* every started thread keeps being scheduled, and so does a caller that is
\* inside stop_can_listener / stop_can_responder
FairSpecStop ==
    /\ InitStop
    /\ [][NextStop]_vars
    /\ \A t \in ThreadIds : WF_vars(WorkerThreadStep(t))
    /\ \A e \in Externals : WF_vars(ExtStopBody(e) \/ ExtJoinReturn(e))

\* worker thread w, registered as the manager's thread of its kind, runs the
\* body of stop_can_listener (stop_can_responder) in this step
SelfStopBy(w) ==
    /\ lm.threads[w].pc = "stop_wait"
    /\ lm'.threads[w].pc # "stop_wait"
    /\ lm.thread[lm.threads[w].kind] = w

\* C7: stop_can_listener (stop_can_responder) called from the worker's own
\* thread sets the stop event, does not join, logs the warning, resets the
\* thread reference and returns with the lock released; no thread ever joins
\* itself.
C7_SelfStopReturns ==
    [][\A w \in ThreadIds :
          /\ SelfStopBy(w) =>
                /\ lm'.stop_event[lm.threads[w].kind]
                /\ lm'.threads[w].pc = "sleeping"
                /\ w \notin lm.warned
                /\ lm'.warned = lm.warned \cup {w}
                /\ lm'.thread[lm.threads[w].kind] = NoThread
                /\ ~LockHeld(lm')
          /\ (lm'.threads[w].pc = "joining" => lm'.thread[lm.threads[w].kind] # w)]_vars

\* C7 witness: a listener and a responder thread have each stopped themselves
\* and are back in their loops
C7_Witness ==
    \E w, v \in lm.warned :
        /\ lm.threads[w].kind = "listener"
        /\ lm.threads[v].kind = "responder"
        /\ lm.threads[w].pc = "sleeping"
        /\ lm.threads[v].pc = "sleeping"
        /\ lm.stop_event["listener"]
        /\ lm.stop_event["responder"]
        /\ lm.thread["listener"] = NoThread
        /\ lm.thread["responder"] = NoThread

ListenerLoops == {t \in ThreadIds : lm.threads[t].kind = "listener" /\ IsAlive(lm, t)}

\* C8: at most one listener loop is running at any time.
C8_AtMostOneListenerLoop == Cardinality(ListenerLoops) <= 1

\* two listener loops are in their loop bodies with the stop event clear and
\* no call in progress: neither will ever be stopped by the event set so far
TwoListenersForGood ==
    /\ Cardinality({t \in ListenerLoops : lm.threads[t].pc = "handling"}) >= 2
    /\ ~lm.stop_event["listener"]
    /\ \A e \in Externals : lm.ext[e].pc = "idle"

(***************************************************************************)
(* CANModule: bringing the interface up and checking the bus               *)
(***************************************************************************)
\* the largest value read from an error counter
MaxErrors == 2

\* def _bring_interface_up(self, retries=3)
bring_up_retries == 3
\* time.sleep(2) between attempts
bring_up_backoff == 2
\* time.sleep(5) after the interface went down, time.sleep(5) after it came up
cooldown_seconds == 5
stabilize_seconds == 5

NoBringUp == [caller |-> "none", attempt |-> 0, failures |-> 0, backoffs |-> 0,
              outcome |-> "none"]

\* CANModule(config): the interface is up, down or absent when
\* _initialize_can_module begins
InitLink ==
    /\ InitApp
    /\ mt = NoMatchRun
    /\ rs = NoResponderRun
    /\ rt = NoRetryRun
    /\ lm = NoManagerRun
    /\ ls = NoListenerRun
    /\ \E i \in {"up", "down", "missing"} :
        lk = [pc |-> "check_interface", iface |-> i,
              read |-> "none", rx_errors |-> 0, tx_errors |-> 0,
              up |-> NoBringUp,      \* the current or last call of _bring_interface_up
              elapsed |-> 0,         \* seconds slept so far
              log |-> <<>>,          \* what was done to the interface, and when
              exc |-> "none"]        \* the exception _initialize_can_module raised

notLink == <<appVars, mt, rs, rt, lm, ls>>

Event(ev) == [ev |-> ev, at |-> lk.elapsed]

\* _check_and_setup_interface, lines 25-40: `ip link show | grep 'state UP'`
LinkCheckInterface ==
    /\ lk.pc = "check_interface"
    /\ \/ /\ lk.iface = "up"
          /\ lk' = [lk EXCEPT !.pc = "setup_bus"]
       \/ /\ lk.iface = "missing"
          /\ lk' = [lk EXCEPT !.pc = "raised", !.exc = "RuntimeError"]
       \/ /\ lk.iface = "down"
          /\ \/ lk' = [lk EXCEPT !.pc = "raised", !.exc = "PermissionError"]
             \/ lk' = [lk EXCEPT !.pc = "bring_up", !.up = [NoBringUp EXCEPT !.caller = "setup"]]
    /\ UNCHANGED notLink

\* a loop that makes one attempt more
AttemptsRemainOneMore(attempt, retries) == attempt <= retries

\* line 82: for attempt in range(retries)
AttemptsRemain(attempt, retries) == attempt < retries

\* a loop that waits after every failed attempt
BackoffAlways(attempt, retries) == TRUE

\* line 95: if attempt < retries - 1
BackoffDue(attempt, retries) == attempt < retries - 1

\* where _bring_interface_up returns to
AfterBringUp(caller) == IF caller = "setup" THEN "setup_bus" ELSE "stabilize"

\* lines 83-96: one attempt: set the bitrate and bring the interface up; an
\* attempt that fails is logged and, unless it was the last, followed by the
\* backoff
LinkBringUpAttempt ==
    /\ lk.pc = "bring_up"
    /\ AttemptsRemain(lk.up.attempt, bring_up_retries)
    /\ \/ lk' = [lk EXCEPT !.pc = AfterBringUp(lk.up.caller),
                           !.iface = "up",
                           !.up.outcome = "returned",
                           !.log = Append(@, Event("up"))]
       \/ lk' = [lk EXCEPT !.up.attempt = @ + 1,
                           !.up.failures = @ + 1,
                           !.up.backoffs = IF BackoffDue(lk.up.attempt, bring_up_retries)
                                           THEN @ + 1 ELSE @,
                           !.elapsed = IF BackoffDue(lk.up.attempt, bring_up_retries)
                                       THEN @ + bring_up_backoff ELSE @,
                           !.log = Append(@, Event("up_failed"))]
    /\ UNCHANGED notLink

\* line 97, after the loop: the raise statement formats the exception variable
\* e, which Python unbinds at the end of the except block, so what is raised
\* is UnboundLocalError. _check_and_setup_interface lets it pass (it catches
\* SubprocessError only); _check_bus_status catches it (line 68), logs it and
\* returns
LinkBringUpExhausted ==
    /\ lk.pc = "bring_up"
    /\ ~AttemptsRemain(lk.up.attempt, bring_up_retries)
    /\ IF lk.up.caller = "setup"
       THEN lk' = [lk EXCEPT !.pc = "raised", !.exc = "UnboundLocalError",
                             !.up.outcome = "raised"]
       ELSE lk' = [lk EXCEPT !.pc = "ready", !.up.outcome = "raised",
                             !.log = Append(@, Event("ready"))]
    /\ UNCHANGED notLink

\* _setup_can_interface, lines 99-118: the bus is opened, or the error is
\* logged and raised again
LinkSetupBus ==
    /\ lk.pc = "setup_bus"
    /\ \/ lk' = [lk EXCEPT !.pc = "read_counters"]
       \/ lk' = [lk EXCEPT !.pc = "raised", !.exc = "Exception"]
    /\ UNCHANGED notLink

\* _check_bus_status, lines 50-55 and 61-67: the counters are read; a missing
\* or unreadable file is logged and the check is over
LinkReadCounters ==
    /\ lk.pc = "read_counters"
    /\ \/ \E rx, tx \in 0..MaxErrors :
            lk' = [lk EXCEPT !.read = "ok", !.rx_errors = rx, !.tx_errors = tx,
                             !.pc = IF rx > 0 \/ tx > 0 THEN "bring_down" ELSE "ready",
                             !.log = IF rx > 0 \/ tx > 0 THEN @ ELSE Append(@, Event("ready"))]
       \/ \E e \in {"FileNotFoundError", "PermissionError"} :
            lk' = [lk EXCEPT !.read = e, !.pc = "ready", !.log = Append(@, Event("ready"))]
    /\ UNCHANGED notLink

\* _bring_interface_down, lines 71-78: a failure is logged, not raised
LinkBringDown ==
    /\ lk.pc = "bring_down"
    /\ \/ lk' = [lk EXCEPT !.pc = "cooldown", !.iface = "down",
                           !.log = Append(@, Event("down"))]
       \/ lk' = [lk EXCEPT !.pc = "cooldown", !.log = Append(@, Event("down_failed"))]
    /\ UNCHANGED notLink

\* line 58, then the call of _bring_interface_up of line 59
LinkCooldown ==
    /\ lk.pc = "cooldown"
    /\ lk' = [lk EXCEPT !.pc = "bring_up", !.elapsed = @ + cooldown_seconds,
                        !.up = [NoBringUp EXCEPT !.caller = "recover"]]
    /\ UNCHANGED notLink

\* line 60; _initialize_can_module returns
LinkStabilize ==
    /\ lk.pc = "stabilize"
    /\ lk' = [lk EXCEPT !.pc = "ready", !.elapsed = @ + stabilize_seconds,
                        !.log = Append(@, Event("ready"))]
    /\ UNCHANGED notLink

NextLink ==
    \/ LinkCheckInterface
    \/ LinkBringUpAttempt
    \/ LinkBringUpExhausted
    \/ LinkSetupBus
    \/ LinkReadCounters
    \/ LinkBringDown
    \/ LinkCooldown
    \/ LinkStabilize

SpecLink == InitLink /\ [][NextLink]_vars

DownEvents == {i \in DOMAIN lk.log : lk.log[i].ev \in {"down", "down_failed"}}

\* C11: when the bus status check has read a nonzero error counter and the
\* module is ready (initialization has returned), the interface was taken
\* down, brought up at least cooldown_seconds later, and the module became
\* ready at least stabilize_seconds after that; when both counters were zero
\* the interface was not taken down.
C11_RecoveryOrder ==
    (lk.pc = "ready" /\ lk.read = "ok") =>
        IF lk.rx_errors > 0 \/ lk.tx_errors > 0
        THEN \E i \in DownEvents : \E j \in DOMAIN lk.log :
                /\ i < j
                /\ lk.log[j].ev = "up"
                /\ lk.log[j].at >= lk.log[i].at + cooldown_seconds
                /\ lk.elapsed >= lk.log[j].at + stabilize_seconds
        ELSE DownEvents = {}

\* the same order, for the runs in which _bring_interface_up returned
RecoveryOrderWhenBroughtUp == lk.up.outcome = "raised" \/ C11_RecoveryOrder

(***************************************************************************)
(* Properties of stop_processing and of command execution                  *)
(***************************************************************************)
\* teardown thread i returns from stop_processing in this step: at once when
\* processing was already off, or out of command_queue.join()
StopProcessingReturns(i) ==
    /\ i \in DOMAIN teardown'
    /\ teardown[i].pc \in {"stop_processing", "queue_join"}
    /\ teardown'[i].pc = "stop_listener"

\* the commands that had been enqueued when thread i called stop_processing
EnqueuedBeforeStop(i) ==
    SubSeq(hist.enqueued, 1,
           IF teardown[i].pc = "queue_join" THEN teardown[i].atStop
           ELSE Len(hist.enqueued))

\* C12: when stop_processing returns, every command that was enqueued before
\* the call has been run by the presentation thread.
C12_StopReturnsAfterExecution ==
    [][\A i \in DOMAIN teardown :
          StopProcessingReturns(i) =>
              \A k \in DOMAIN EnqueuedBeforeStop(i) :
                  \E e \in DOMAIN hist'.executed :
                      hist'.executed[e] = EnqueuedBeforeStop(i)[k]]_vars

\* the presentation thread runs a command whose body raises
FailingCommandStep ==
    /\ Len(hist'.executed) = Len(hist.executed) + 1
    /\ Raises(hist'.executed[Len(hist'.executed)])

\* the commands enqueued behind the k-th one are the ones run behind it, then
\* the ones pending on the Tk loop, held by the worker and queued, in order
OrderBehind(k) ==
    SubSeq(hist.enqueued, k + 1, Len(hist.enqueued)) =
        SubSeq(hist.executed, k + 1, Len(hist.executed))
            \o tk.afterQueue \o HeldByWorker \o cp.command_queue

\* C13: an exception raised by a queued command is caught (and logged) and
\* stops nothing: the step in which it is raised changes neither the
\* application nor the command processor and leaves every later callback
\* scheduled, and the commands enqueued behind a failed one run in order.
C13_FailureDoesNotStopProcessing ==
    /\ [](\A k \in DOMAIN hist.executed : Raises(hist.executed[k]) => OrderBehind(k))
    /\ [][FailingCommandStep =>
             /\ tk'.afterQueue = Tail(tk.afterQueue)
             /\ cp' = cp
             /\ app' = app
             /\ teardown' = teardown]_vars

\* C13 witness: the first command raised, and the command enqueued behind it
\* has been run after it
C13_Witness ==
    /\ Len(hist.executed) = 2
    /\ Raises(hist.executed[1])
    /\ hist.executed[2] = hist.enqueued[2]
    /\ ~Raises(hist.executed[2])

\* a command body is run in this step (a restart only clears the history)
CommandBodyRuns == hist'.executed # hist.executed /\ hist'.executed # <<>>

\* C14: a command body runs only in a step of the presentation thread, one
\* command per step: the command run is the oldest callback pending on the Tk
\* loop, and the step is neither a step of the listener (nothing is enqueued),
\* nor of the responder, nor of the dequeue worker (queue, worker and flag of
\* the command processor are unchanged).
C14_OnlyPresentationThreadRuns ==
    [][CommandBodyRuns =>
          /\ tk.afterQueue # <<>>
          /\ hist'.executed = Append(hist.executed, Head(tk.afterQueue))
          /\ tk'.afterQueue = Tail(tk.afterQueue)
          /\ hist'.enqueued = hist.enqueued
          /\ cp' = cp
          /\ loops' = loops]_vars

\* C14 witness: a shutdown_system command enqueued by the listener's handler
\* has been run, and the teardown thread it started is at work, while the
\* dequeue worker is still in its loop
C14_Witness ==
    /\ hist.executed # <<>>
    /\ hist.executed[1].name = "shutdown_system"
    /\ \E i \in DOMAIN teardown : teardown[i].action = "_system_shutdown_cleanup"
    /\ cp.worker.pc \in {"loop", "get"}
    /\ cp.processing

(***************************************************************************)
(* Properties of the teardown thread                                       *)
(***************************************************************************)
\* the statements of the try block in the order claimed: stop command
\* processing (with its wait in join), stop the listener, stop the responder
\* and shut the transport down, stop the timer, schedule the terminal action
TeardownOrder ==
    <<"stop_processing", "queue_join", "stop_listener", "stop_responder",
      "timer_stop", "schedule", "finally">>

\* the place of a statement in that order
Place(pc) == CHOOSE k \in DOMAIN TeardownOrder : TeardownOrder[k] = pc

\* teardown thread i goes from one statement to another in this step
Moves(i) ==
    /\ Len(teardown') = Len(teardown)
    /\ teardown'[i].pc # teardown[i].pc

\* a terminal action is added to the callbacks of the Tk loop in this step
TerminalActionScheduled == Len(tk'.terminalQueue) > Len(tk.terminalQueue)

C16_AllStepsDespiteFailure ==
    [][\A i \in DOMAIN teardown :
          (Moves(i) /\ teardown'[i].pc = "finally") => teardown[i].pc = "schedule"]_vars

(***************************************************************************)
(* CANManager: the listener loop (_can_message_handler)                    *)
(***************************************************************************)
\* iterations of the listener loop in one run
MaxIterations == 6

\* max_retries of _can_message_handler
listener_max_retries == 5

\* what bus.recv(timeout=1.0) does: a frame, None after the timeout, the
\* can.CanError of a failing bus, or an exception of another class (OSError
\* on a closed socket)
RecvOutcomes == {"message", "timeout", "CanError", "OSError"}

\* a receive that fails
RecvFails(outcome) == outcome \in {"CanError", "OSError"}

\* the exceptions handle_can_message catches itself: `except can.CanError`
CaughtByHandle(outcome) == outcome = "CanError"

InitListener ==
    /\ InitApp
    /\ mt = NoMatchRun
    /\ rs = NoResponderRun
    /\ rt = NoRetryRun
    /\ lm = NoManagerRun
    /\ lk = NoLinkRun
    /\ ls = [pc |-> "while",
             stop_event |-> FALSE,
             retry_count |-> 0,
             iterations |-> 0,       \* calls of handle_can_message
             consecutive |-> 0,      \* receive failures in a row, up to now
             moduleErrors |-> 0,     \* error entries logged by can_module
             managerErrors |-> 0,    \* error entries logged by can_manager
             critical |-> FALSE]     \* the critical entry of line 116

notListener == <<appVars, mt, rs, rt, lm, lk>>

\* stop_can_listener sets the stop event
ListenerStopRequested ==
    /\ ls.pc \notin {"idle", "exited"}
    /\ ~ls.stop_event
    /\ ls' = [ls EXCEPT !.stop_event = TRUE]
    /\ UNCHANGED notListener

\* line 108: while not self.can_listener_stop_event.is_set()
ListenerWhile ==
    /\ ls.pc = "while"
    /\ IF ls.stop_event
       THEN ls' = [ls EXCEPT !.pc = "exited"]
       ELSE /\ ls.iterations < MaxIterations
            /\ ls' = [ls EXCEPT !.pc = "handle", !.iterations = @ + 1]
    /\ UNCHANGED notListener

\* line 110 with CANModule.handle_can_message (lines 130-137): bus.recv, the
\* dispatch of a frame, and `except can.CanError`, which logs and returns
ListenerHandle ==
    /\ ls.pc = "handle"
    /\ \E outcome \in RecvOutcomes :
          IF ~RecvFails(outcome)
          THEN ls' = [ls EXCEPT !.pc = "reset", !.consecutive = 0]
          ELSE IF CaughtByHandle(outcome)
               THEN ls' = [ls EXCEPT !.pc = "reset", !.consecutive = @ + 1,
                                     !.moduleErrors = @ + 1]
               ELSE ls' = [ls EXCEPT !.pc = "except", !.consecutive = @ + 1]
    /\ UNCHANGED notListener

\* a loop that keeps its count over an iteration that went well
RetryCountKept(retry_count) == retry_count

\* line 111: retry_count = 0
RetryCountReset(retry_count) == 0

\* line 111: retry_count = 0 after handle_can_message returned
ListenerReset ==
    /\ ls.pc = "reset"
    /\ ls' = [ls EXCEPT !.pc = "sleep", !.retry_count = RetryCountReset(@)]
    /\ UNCHANGED notListener

\* lines 112-117: count, log, and break at max_retries
ListenerExcept ==
    /\ ls.pc = "except"
    /\ LET n == ls.retry_count + 1 IN
       ls' = [ls EXCEPT !.retry_count = n,
                        !.managerErrors = @ + 1,
                        !.critical = (n >= listener_max_retries),
                        !.pc = IF n >= listener_max_retries THEN "exited" ELSE "sleep"]
    /\ UNCHANGED notListener

\* line 118: time.sleep(self.listener_poll_interval)
ListenerSleep ==
    /\ ls.pc = "sleep"
    /\ ls' = [ls EXCEPT !.pc = "while"]
    /\ UNCHANGED notListener

NextListener ==
    \/ ListenerStopRequested
    \/ ListenerWhile
    \/ ListenerHandle
    \/ ListenerReset
    \/ ListenerExcept
    \/ ListenerSleep

SpecListener == InitListener /\ [][NextListener]_vars

\* the listener has finished an iteration and goes on with its loop
IterationDone == ls.pc \in {"sleep", "while"}

\* C17: the listener does not go on after five failed receives in a row:
\* when an iteration is over and the loop goes on, fewer than 5 receives in a
\* row have failed, and a loop that has seen 5 in a row has ended with the
\* critical entry logged.
C17_FiveFailuresEndLoop ==
    /\ IterationDone => ls.consecutive < listener_max_retries
    /\ (ls.pc = "exited" /\ ls.consecutive >= listener_max_retries) => ls.critical

\* what the loop does count: the exceptions that leave handle_can_message.
\* The loop goes on with fewer than 5 of them in a row, and the critical
\* entry is logged exactly when the 5th ends the loop.
CountedFailuresEndLoop ==
    /\ ls.pc # "idle" => ls.retry_count <= listener_max_retries
    /\ IterationDone => ls.retry_count < listener_max_retries
    /\ ls.pc # "idle" =>
          (ls.critical <=> (ls.pc = "exited" /\ ls.retry_count = listener_max_retries))

(***************************************************************************)
(* Properties of the responder's sends                                     *)
(***************************************************************************)
\* the responder has given up the frame it was sending: the exception of the
\* send reached the `except Exception` of the loop
SendGivenUp == rs.pc = "except"

\* C18: a status frame whose send fails is retried under the bounded-retry
\* policy of _send_can_message_with_retry: the responder gives a frame up
\* only after max_retries (3) attempts to send it.
C18_FailedSendIsRetried == SendGivenUp => rs.attempts = default_max_retries

\* one failed send does not end the loop: the loop ends through its except
\* block only at the fifth failure in a row
LoopSurvivesFailures ==
    (rs.pc = "done" /\ ~rs.stop_event) => rs.retry_count = responder_max_retries

(***************************************************************************)
(* Properties of _bring_interface_up                                       *)
(***************************************************************************)
\* attempts made by the call of _bring_interface_up under way or last ended
AttemptsMade == lk.up.failures + (IF lk.up.outcome = "returned" THEN 1 ELSE 0)

Min(a, b) == IF a < b THEN a ELSE b

\* C19: _bring_interface_up makes at most `retries` (3) attempts; it returns
\* at the first attempt that succeeds and makes no further one; it has waited
\* the backoff once after each failed attempt except the last of the three,
\* so only between attempts; and it raises only when all three have failed.
C19_BoundedBringUp ==
    lk.pc # "idle" =>
        /\ AttemptsMade <= bring_up_retries
        /\ lk.up.outcome = "returned" => lk.pc # "bring_up"
        /\ lk.up.backoffs = Min(lk.up.failures, bring_up_retries - 1)
        /\ lk.up.outcome # "none" => lk.up.backoffs = AttemptsMade - 1
        /\ lk.up.outcome = "raised" => lk.up.failures = bring_up_retries

\* C19 witness: all three attempts failed with two backoffs between them, and
\* the call made by _check_and_setup_interface raised
C19_Witness ==
    /\ lk.pc = "raised"
    /\ lk.up.caller = "setup"
    /\ lk.up.outcome = "raised"
    /\ lk.up.failures = bring_up_retries
    /\ lk.up.backoffs = bring_up_retries - 1

\* a call that returned at its second attempt, after one backoff
ReturnedAtSecondAttempt ==
    /\ lk.pc # "idle"
    /\ lk.up.outcome = "returned"
    /\ lk.up.failures = 1
    /\ lk.up.backoffs = 1

(***************************************************************************)
(* Properties of the lifecycle flags                                       *)
(***************************************************************************)
\* C20: at most one lifecycle transition is in progress: restart_in_progress
\* and shutdown_in_progress are never both set, at most one teardown thread
\* is running (has not yet left its finally block), and a running teardown
\* thread is the one whose flag is set.
C20_OneTransitionAtATime ==
    /\ ~(app.restart_in_progress /\ app.shutdown_in_progress)
    /\ Len(teardown) <= 1
    /\ \A i \in DOMAIN teardown :
          IF teardown[i].action = "_restart_ui_cleanup"
          THEN app.restart_in_progress
          ELSE app.shutdown_in_progress

\* C20 witness: a second transition has been accepted after the first one
\* ended: the restart's terminal action is still pending on the Tk loop while
\* the teardown thread of a shutdown is at work
C20_Witness ==
    /\ app.shutdown_in_progress
    /\ Len(teardown) = 1
    /\ teardown[1].action \in {"_shutdown_ui_cleanup", "_system_shutdown_cleanup"}
    /\ tk.terminalQueue = <<"_restart_ui_cleanup">>

(***************************************************************************)
(* Properties of the signal path                                           *)
(***************************************************************************)
\* _handle_signal runs in this step
SignalHandled == app'.signal # app.signal

\* C21: handling a termination or interrupt signal only enqueues a
\* shutdown_app command: the step puts exactly that command on the queue and
\* changes neither the application (lifecycle flags, presentation thread)
\* nor the worker loops, the dequeue worker or the teardown threads.
C21_SignalOnlyEnqueues ==
    [][SignalHandled =>
          /\ Len(hist'.enqueued) = Len(hist.enqueued) + 1
          /\ hist'.enqueued[Len(hist'.enqueued)].name = "shutdown_app"
          /\ cp'.command_queue = Append(cp.command_queue,
                                        hist'.enqueued[Len(hist'.enqueued)])
          /\ app'.state = app.state
          /\ app'.restart_in_progress = app.restart_in_progress
          /\ app'.shutdown_in_progress = app.shutdown_in_progress
          /\ cp'.processing = cp.processing
          /\ teardown' = teardown
          /\ loops' = loops]_vars

\* what does hold of the signal path: it sets no lifecycle flag, stops no
\* worker and starts no teardown thread
SignalLeavesLifecycleAlone ==
    [][SignalHandled =>
          /\ app'.restart_in_progress = app.restart_in_progress
          /\ app'.shutdown_in_progress = app.shutdown_in_progress
          /\ cp' = cp
          /\ teardown' = teardown
          /\ loops' = loops]_vars

(***************************************************************************)
(* Properties of the dispatch of a frame                                   *)
(***************************************************************************)
\* the rules of the list that qualify for the frame
Qualifying == {i \in DOMAIN mt.filters : Qualifies(mt.message, mt.filters[i])}

\* C22: for a received frame exactly the handler registered under the name of
\* the matched rule (the first that qualifies) is called, once, with the id
\* and the payload of the frame; for a frame no rule matches no handler is
\* called; in both cases nothing is raised, so no failure is counted.
C22_ExactlyTheMatchedHandler ==
    mt.pc = "handled" =>
        /\ ~mt.raised
        /\ IF Qualifying = {}
           THEN mt.invoked = <<>>
           ELSE LET first == CHOOSE i \in Qualifying : \A j \in Qualifying : i <= j
                IN mt.invoked = <<[handler |-> mt.filters[first].name,
                                   id |-> mt.message.arbitration_id,
                                   data |-> mt.message.data]>>

\* C22 witness: the second rule of the list is the matched one and its
\* handler, not the first rule's, has been called with the frame
C22_Witness ==
    /\ mt.pc = "handled"
    /\ Len(mt.filters) = 2
    /\ mt.filters[1].name # mt.filters[2].name
    /\ Qualifying = {2}
    /\ Len(mt.invoked) = 1
    /\ mt.invoked[1].handler = mt.filters[2].name

\* a frame that no rule matches has gone through without a handler call
UnmatchedFrameIgnored ==
    /\ mt.pc = "handled"
    /\ mt.filters # <<>>
    /\ Qualifying = {}
    /\ mt.invoked = <<>>

\* the loop of _match_filter_to_handler gets as far as rule i
ReachesRule(i) ==
    \A j \in 1..(i - 1) : ~IsMessageMatchingFilter(mt.message, mt.filters[j])

\* C23: a rule with more payload conditions than the frame has payload bytes
\* is rejected without an error, and the result of the matcher is the result
\* of matching the frame against the rules behind it.
C23_ShortPayloadRejected ==
    mt.pc = "matched" =>
        \A i \in DOMAIN mt.filters :
            (/\ Len(mt.message.data) < Len(mt.filters[i].payload_conditions)
             /\ ReachesRule(i))
            => /\ ~mt.raised
               /\ mt.handler_name = MatchFrom(mt.message, mt.filters, i + 1)

\* what the matcher does guarantee: a rule that compares a byte the payload
\* does not have is rejected, and matching continues behind it
ShortOfComparedByteRejected ==
    mt.pc = "matched" =>
        \A i \in DOMAIN mt.filters :
            (/\ \E k \in DOMAIN mt.filters[i].payload_conditions :
                    /\ mt.filters[i].payload_conditions[k].kind = "hex"
                    /\ k > Len(mt.message.data)
             /\ ReachesRule(i))
            => /\ ~mt.raised
               /\ mt.handler_name = MatchFrom(mt.message, mt.filters, i + 1)

(***************************************************************************)
(* Properties of the worker loops at the terminal action                   *)
(***************************************************************************)
\* a loop that has not ended: it runs, with its stop event set or not
LoopAlive(loop) == loop \in {"running", "stopping"}

\* the presentation thread is inside _restart_ui_cleanup, _shutdown_ui_cleanup
\* or _system_shutdown_cleanup, before the new start() of a restart
TerminalActionExecuting == app.mainThread # "mainloop"

\* C24: while the terminal action of a restart or shutdown executes, neither
\* the listener loop nor the responder loop is still running.
C24_NoLoopAtTerminalAction ==
    TerminalActionExecuting =>
        /\ ~LoopAlive(loops.listener)
        /\ ~LoopAlive(loops.responder)

(***************************************************************************)
(* Properties of starting a worker over a live one                         *)
(***************************************************************************)
\* a caller of start_can_listener / start_can_responder holds self.lock and
\* waits for it again in the stop call it makes: no step of any thread
\* releases the lock, so the call never returns
StartBlockedOnOwnLock(e) == lm.ext[e].pc = "nested_stop"

\* C25: start_can_listener (start_can_responder) called while the previous
\* worker thread is alive returns, with the old loop stopped and one new loop
\* started; the caller never blocks for good on the manager's lock.
C25_StartOverLiveWorkerReturns ==
    \A e \in Externals : ~StartBlockedOnOwnLock(e)

\* a start that found no live worker did return, with its thread registered
\* and running
StartOverDeadWorkerReturned ==
    \E k \in Kinds :
        /\ lm.thread[k] > 1
        /\ lm.threads[lm.thread[k]].kind = k
        /\ IsAlive(lm, lm.thread[k])
        /\ \A e \in Externals : lm.ext[e].pc = "idle"

(***************************************************************************)
(* Properties of one iteration of the responder loop                       *)
(***************************************************************************)
\* C26: in one iteration of the responder loop at most one status frame is
\* sent: the periodic branch is entered only in an iteration that did not
\* send the immediate frame.
C26_OneFramePerIteration ==
    /\ rs.pc \in {"periodic_send", "periodic_reset"} => ~rs.iterImmediate
    /\ rs.pc = "periodic_send" => rs.iterFrames = 0
    /\ rs.pc = "sleep" => rs.iterFrames <= 1

\* C26 witness: the iteration read a time at which the periodic frame was due
\* (the first deadline, no frame sent before), found the latch set, sent the
\* immediate frame and went to sleep without sending the periodic one
C26_Witness ==
    /\ rs.pc = "sleep"
    /\ rs.iterImmediate
    /\ rs.iterFrames = 1
    /\ rs.current_time >= rs.deadline
    /\ Len(rs.sent) = 1
    /\ rs.sent[1].branch = "immediate"

(***************************************************************************)
(* Properties of the periodic schedule                                     *)
(***************************************************************************)
\* the loop runs, has not been asked to stop, no send has failed, and the
\* deadline of the next frame has been reached
FrameDue ==
    /\ rs.pc \notin {"begin", "done", "immediate_reset", "periodic_reset"}
    /\ ~rs.stop_event
    /\ ~rs.failed
    /\ rs.now >= rs.next_send_time

\* the transport has just accepted a frame, or the loop is excused
FrameSentOrExcused ==
    \/ rs.pc \in {"immediate_reset", "periodic_reset"}
    \/ rs.stop_event
    \/ rs.failed

\* after a periodic send the deadline is the time read after the send plus
\* periodic_interval
DeadlineAfterPeriodicSend ==
    (rs.pc = "sleep" /\ rs.iterFrames = 1 /\ ~rs.iterImmediate) =>
        /\ rs.next_send_time >= rs.sent[Len(rs.sent)].time + responder_periodic_interval
        /\ rs.next_send_time <= rs.now + responder_periodic_interval

PeriodicFramesApart ==
    \A i, j \in DOMAIN rs.sent :
        (i < j /\ rs.sent[i].branch = "periodic" /\ rs.sent[j].branch = "periodic")
            => rs.sent[j].time >= rs.sent[i].time + responder_periodic_interval

\* C27: the periodic schedule is not starved: while the responder runs, is
\* not stopped and no send fails, every deadline that is reached is followed
\* by a status frame; after a periodic send the next deadline is the time
\* after the send plus periodic_interval, so two periodic frames are at least
\* periodic_interval apart.
C27_PeriodicNotStarved ==
    /\ FrameDue ~> FrameSentOrExcused
    /\ [](DeadlineAfterPeriodicSend /\ PeriodicFramesApart)

\* C27 witness: started at 0 and never triggered, the responder has sent the
\* periodic frames of the deadlines 2 and 4
C27_Witness ==
    /\ rs.t0 = 0
    /\ rs.triggers = 0
    /\ ~rs.failed
    /\ ~rs.stop_event
    /\ rs.pc = "sleep"
    /\ rs.sent = <<[time |-> 2, branch |-> "periodic"], [time |-> 4, branch |-> "periodic"]>>
    /\ rs.next_send_time = 6

(***************************************************************************)
(* Properties of stopping a worker                                         *)
(***************************************************************************)
\* thread t begins an iteration of its loop in this step
BeginsIteration(t) ==
    /\ lm.threads[t].pc = "check"
    /\ lm'.threads[t].pc = "handling"

\* thread t ends in this step
Ends(t) ==
    /\ lm.threads[t].pc # "dead"
    /\ lm'.threads[t].pc = "dead"

\* a caller returns from stop_can_listener / stop_can_responder in this step
StopReturns(e) ==
    /\ lm.ext[e].pc \in {"stop_wait", "joining"}
    /\ lm'.ext[e].pc = "idle"

\* no new iteration begins while the stop event is set; a thread ends by a
\* step of its own (at the loop test, or leaving the loop from its body),
\* never by the step in which a stop call returns
CancellationIsCooperative ==
    [][\A t \in ThreadIds :
          /\ BeginsIteration(t) => ~lm.stop_event[lm.threads[t].kind]
          /\ Ends(t) => /\ lm.threads[t].pc \in {"check", "handling"}
                        /\ lm'.ext = lm.ext
          /\ (\E e \in Externals : StopReturns(e)) => lm'.threads[t] = lm.threads[t]]_vars

C29_ConsecutiveFailuresOnly ==
    /\ ls.pc \notin {"idle", "reset"} => ls.retry_count <= ls.consecutive
    /\ (ls.pc = "sleep" /\ ls.consecutive = 0) => ls.retry_count = 0
    /\ ls.critical => /\ ls.retry_count = listener_max_retries
                      /\ ls.consecutive >= listener_max_retries
                      /\ ls.pc = "exited"

\* C29 witness: four iterations failed and were counted, the fifth completed
\* without error and the counter is back at 0; the loop goes on
C29_Witness ==
    /\ ls.pc = "sleep"
    /\ ls.iterations = 5
    /\ ls.managerErrors = 4
    /\ ls.consecutive = 0
    /\ ls.retry_count = 0
    /\ ~ls.critical
    /\ ~ls.stop_event

\* the listener has stopped itself after five failing iterations in a row
SelfStoppedAfterFive ==
    /\ ls.critical
    /\ ls.iterations = listener_max_retries
    /\ ls.managerErrors = listener_max_retries

(***************************************************************************)
(* Properties of a rejected shutdown_system                                *)
(***************************************************************************)
\* the presentation thread runs shutdown_system in this step and
\* _perform_cleanup_and_action rejects it: a restart or shutdown is in progress
ShutdownSystemRejected ==
    /\ Len(hist'.executed) = Len(hist.executed) + 1
    /\ hist'.executed[Len(hist'.executed)].name = "shutdown_system"
    /\ InProgress
    /\ ~app'.lastRequest.accepted

\* C30: a shutdown_system call that is rejected because a restart or shutdown
\* is in progress has no effect at all: no flag changes, no tear-down starts
\* and no frame is transmitted on the bus.
C30_RejectedShutdownSendsNothing ==
    [][ShutdownSystemRejected =>
          /\ app'.restart_in_progress = app.restart_in_progress
          /\ app'.shutdown_in_progress = app.shutdown_in_progress
          /\ teardown' = teardown
          /\ app'.busFrames = app.busFrames]_vars

\* what does hold: the rejected call changes no flag and starts no tear-down
RejectedShutdownKeepsLifecycle ==
    [][ShutdownSystemRejected =>
          /\ app'.restart_in_progress = app.restart_in_progress
          /\ app'.shutdown_in_progress = app.shutdown_in_progress
          /\ teardown' = teardown]_vars

(***************************************************************************)
(* Properties of the log of _send_can_message_with_retry                   *)
(***************************************************************************)
EntriesOf(logger, level) ==
    Cardinality({i \in DOMAIN rt.log : rt.log[i] = Logged(logger, level)})

MaxHwFilters == 2

TypeError == -2

\* a value of a hardware filter: the hex string of the configuration, or the
\* int that the set-up has put in its place
HexString(digits) == [type |-> "str", digits |-> digits, value |-> 0]
IntValue(n) == [type |-> "int", digits |-> <<>>, value |-> n]

\* int(x, 16): a str is parsed (ValueError when it is no hex number); with an
\* explicit base anything that is not a str is a TypeError
IntBase16(x) == IF x.type = "int" THEN TypeError ELSE ParseHex(x.digits)

\* lines 103-106: the loop over self.hw_filters, from filter i on, assigning
\* in place: the list when it ends, and the exception that ended it
RECURSIVE TranslateFrom(_, _)
TranslateFrom(filters, i) ==
    IF i > Len(filters) THEN [hw_filters |-> filters, exc |-> "none"]
    ELSE LET id == IntBase16(filters[i].can_id) IN
         IF id = TypeError THEN [hw_filters |-> filters, exc |-> "TypeError"]
         ELSE IF id = ValueError THEN [hw_filters |-> filters, exc |-> "ValueError"]
         ELSE LET f1 == [filters EXCEPT ![i].can_id = IntValue(id)]
                  mask == IntBase16(filters[i].can_mask)
              IN IF mask = TypeError THEN [hw_filters |-> f1, exc |-> "TypeError"]
                 ELSE IF mask = ValueError THEN [hw_filters |-> f1, exc |-> "ValueError"]
                 ELSE TranslateFrom([f1 EXCEPT ![i].can_mask = IntValue(mask)], i + 1)

\* the configured values: "1", "7FF", and one that is no hex number
ConfiguredValues == {HexString(<<1>>), HexString(<<7, 15, 15>>), HexString(<<NotHex>>)}
HwFilterLists == SeqsUpTo([can_id : ConfiguredValues, can_mask : ConfiguredValues],
                          MaxHwFilters)

\* CANModule(config), line 14: self.hw_filters is the list of the
\* configuration itself (an absent or empty list skips the translation)
InitSetup ==
    /\ InitApp
    /\ mt = NoMatchRun
    /\ rs = NoResponderRun
    /\ rt = NoRetryRun
    /\ lm = NoManagerRun
    /\ ls = NoListenerRun
    /\ \E fs \in HwFilterLists :
        lk = [pc |-> "constructing",
              hw_filters |-> fs,
              first |-> <<>>,          \* hw_filters after the first set-up
              bus |-> "None",
              setups |-> 0,            \* calls of _setup_can_interface
              busFailed |-> FALSE,     \* can.interface.Bus raised
              exc |-> "none"]          \* the exception the last call raised

\* _setup_can_interface, lines 99-118: translate, open the bus; an exception
\* is logged and raised again
SetupCanInterface(l) ==
    LET t == TranslateFrom(l.hw_filters, 1) IN
    IF t.exc # "none"
    THEN {[l EXCEPT !.hw_filters = t.hw_filters, !.exc = t.exc, !.setups = @ + 1]}
    ELSE {[l EXCEPT !.hw_filters = t.hw_filters, !.exc = "none", !.setups = @ + 1,
                    !.bus = "open"],
          [l EXCEPT !.hw_filters = t.hw_filters, !.exc = "CanError", !.setups = @ + 1,
                    !.busFailed = TRUE]}

\* __init__ -> _initialize_can_module (the interface is up, the counters are 0)
SetupConstruct ==
    /\ lk.pc = "constructing"
    /\ \E l \in SetupCanInterface(lk) :
          lk' = [l EXCEPT !.pc = IF l.exc = "none" THEN "ready" ELSE "raised",
                          !.first = l.hw_filters]
    /\ UNCHANGED notLink

\* shutdown, lines 178-188: self.bus.shutdown(); self.bus stays bound
SetupShutdown ==
    /\ lk.pc \in {"ready", "reinitialized"}
    /\ lk.setups < 3
    /\ lk' = [lk EXCEPT !.pc = "shut_down", !.bus = "closed"]
    /\ UNCHANGED notLink

\* reinitialize_can, lines 190-198: _initialize_can_module again; an exception
\* is logged and raised again
SetupReinitialize ==
    /\ lk.pc = "shut_down"
    /\ \E l \in SetupCanInterface(lk) :
          lk' = [l EXCEPT !.pc = IF l.exc = "none" THEN "reinitialized"
                                 ELSE "reinitialize_raised"]
    /\ UNCHANGED notLink

NextSetup ==
    \/ SetupConstruct
    \/ SetupShutdown
    \/ SetupReinitialize

SpecSetup == InitSetup /\ [][NextSetup]_vars

\* C32: the hardware filters are translated once: reinitialize_can after a
\* shutdown, on a module whose set-up succeeded, does not translate the
\* translated filters again, and, when the transport opens the bus, succeeds
\* with the filter values of the first set-up.
C32_FiltersTranslatedOnce ==
    (lk.pc \in {"reinitialized", "reinitialize_raised"} /\ ~lk.busFailed) =>
        /\ lk.exc = "none"
        /\ lk.bus = "open"
        /\ lk.hw_filters = lk.first

\* the filter values themselves survive the second set-up
FilterValuesKept ==
    lk.pc \in {"reinitialized", "reinitialize_raised"} => lk.hw_filters = lk.first

\* without hardware filters reinitialize_can does succeed
ReinitializedWithoutFilters ==
    /\ lk.pc = "reinitialized"
    /\ lk.hw_filters = <<>>
    /\ lk.bus = "open"

(***************************************************************************)
(* Properties of the handlers the listener thread calls                    *)
(***************************************************************************)
\* the listener thread calls a handler of the table in this step
HandlerCalled == hist'.cmdCount = hist.cmdCount + 1

\* the listener is in its loop and a frame of a dispatched rule may arrive
ListenerMayDispatch ==
    /\ app.state = "running"
    /\ loops.listener \in {"running", "stopping"}
    /\ hist.cmdCount < MaxCmds

\* C33: a handler called by the listener thread appends one command to the
\* command queue and changes nothing else: no lifecycle flag, no tear-down,
\* nothing scheduled on or run by the presentation thread; and the call waits
\* for nothing (it can be made whatever the presentation thread, the dequeue
\* worker and a stop_processing in progress are doing).
C33_HandlerOnlyEnqueues ==
    /\ [][HandlerCalled =>
            /\ Len(cp'.command_queue) = Len(cp.command_queue) + 1
            /\ SubSeq(cp'.command_queue, 1, Len(cp.command_queue)) = cp.command_queue
            /\ cp'.command_queue[Len(cp'.command_queue)].id = hist'.cmdCount
            /\ cp'.processing = cp.processing
            /\ cp'.lock = cp.lock
            /\ cp'.worker = cp.worker
            /\ app' = app
            /\ teardown' = teardown
            /\ tk' = tk
            /\ hist'.executed = hist.executed]_vars
    /\ [](ListenerMayDispatch =>
            ENABLED (\E rule \in DispatchedRules : ListenerDispatch(rule, "full")))

\* C33 witness: a handler has enqueued a lifecycle request while
\* stop_processing holds the processor's lock and waits in queue.join(); the
\* request has not run and the flags are those of the tear-down in progress
C33_Witness ==
    /\ cp.lock = "held"
    /\ cp.command_queue # <<>>
    /\ cp.command_queue[Len(cp.command_queue)].name = "shutdown_system"
    /\ \E i \in DOMAIN teardown :
          /\ teardown[i].pc = "queue_join"
          /\ teardown[i].action = "_restart_ui_cleanup"
          /\ Len(hist.enqueued) > teardown[i].atStop
    /\ app.restart_in_progress
    /\ ~app.shutdown_in_progress
    /\ app.busFrames = 0

(***************************************************************************)
(* Properties of the termination of stop_processing                        *)
(***************************************************************************)
\* stop_processing is inside its `with self.lock` block, in queue.join()
StopProcessingWaits == cp.lock = "held"

\* C34: stop_processing always terminates: whatever the queue holds and
\* however enqueue_command and the dequeue worker interleave with it, the
\* call returns and the lock of the processor is released.
C34_StopProcessingTerminates ==
    StopProcessingWaits ~> (~StopProcessingWaits \/ app.state = "exited")

\* the state stop_processing cannot leave: it waits in queue.join() for a
\* command that nobody will take, the dequeue worker having left its loop
StopProcessingStuck ==
    /\ StopProcessingWaits
    /\ cp.worker.pc = "exited"
    /\ cp.unfinished_tasks > 0
    /\ app.state = "running"

(***************************************************************************)
(* Properties of the pending terminal action                               *)
(***************************************************************************)
\* a terminal action is scheduled with root.after(100, ...) and has not begun
TerminalActionPending == tk.terminalQueue # <<>>

\* a request is accepted in this step: a tear-down thread is started
RequestAccepted == Len(teardown') = Len(teardown) + 1

\* C35: between the acceptance of a restart or shutdown request and the
\* execution of its terminal action no other request is accepted: no request
\* is accepted while a terminal action is pending, the flags are not both
\* clear while one is pending, and at most one is pending.
C35_OneTerminalActionPending ==
    /\ [][RequestAccepted => ~TerminalActionPending]_vars
    /\ [](TerminalActionPending => InProgress)
    /\ [](Len(tk.terminalQueue) <= 1)

\* two terminal actions are pending on the presentation thread
TwoTerminalActionsPending == Len(tk.terminalQueue) >= 2

\* a request has been accepted while the terminal action of the one before
\* is pending
AcceptedWhilePending ==
    /\ TerminalActionPending
    /\ teardown # <<>>
    /\ teardown[1].action # tk.terminalQueue[1]

(***************************************************************************)
(* Properties of the immediate-response latch under send failures          *)
(***************************************************************************)
ImmediateFramesSent ==
    Cardinality({i \in DOMAIN rs.sent : rs.sent[i].branch = "immediate"})

\* the responder is between two iterations of its loop
BetweenIterations == rs.pc \in {"sleep", "loop"}

\* C36: a trigger is never lost: between iterations, every latch the
\* responder has cleared has had its status frame transmitted, or the latch
\* is set, so that the next iteration makes the immediate send again.
C36_TriggerNeverLost ==
    BetweenIterations =>
        \/ ImmediateFramesSent = rs.consumed
        \/ rs.immediate_response_event

\* what does hold: a cleared latch is answered by one send_message call, and
\* when no send fails every cleared latch has its frame
ClearedLatchSentUnlessFailed ==
    BetweenIterations =>
        /\ rs.immSends = rs.consumed
        /\ ~rs.failed => ImmediateFramesSent = rs.consumed

(***************************************************************************)
(* CommandProcessor: process_queue and stop_processing called in any order *)
(***************************************************************************)
\* dequeue worker threads one processor creates
MaxWorkers == 2
\* calls of process_queue and stop_processing
MaxProcessorCalls == 4

WorkerIds == 1..MaxWorkers

\* CommandProcessor(root): no worker thread, processing False
InitProcessor ==
    /\ app = [state |-> "constructed"]
    /\ teardown = <<>>
    /\ tk = [afterQueue |-> <<>>, terminalQueue |-> <<>>]
    /\ hist = [enqueued |-> <<>>, executed |-> <<>>, cmdCount |-> 0]
    /\ loops = [listener |-> "idle", responder |-> "idle"]
    /\ mt = NoMatchRun
    /\ rs = NoResponderRun
    /\ rt = NoRetryRun
    /\ lm = NoManagerRun
    /\ lk = NoLinkRun
    /\ ls = NoListenerRun
    /\ cp = [command_queue |-> <<>>, unfinished_tasks |-> 0, processing |-> FALSE,
             lock |-> "free",
             workers |-> [w \in WorkerIds |-> "none"],  \* every thread process_queue started
             worker_thread |-> 0,                        \* self.worker_thread
             calls |-> 0]

notProcessor == <<app, teardown, tk, hist, loops, mt, rs, rt, lm, lk, ls>>

\* line 24: if not self.processing
NotProcessing(p) == ~p.processing

\* process_queue, lines 23-28
ProcessQueueCall ==
    /\ cp.lock = "free"
    /\ cp.calls < MaxProcessorCalls
    /\ IF NotProcessing(cp)
       THEN \E w \in WorkerIds :
              /\ cp.workers[w] = "none"
              /\ \A u \in WorkerIds : u < w => cp.workers[u] # "none"
              /\ cp' = [cp EXCEPT !.processing = TRUE, !.workers[w] = "loop",
                                  !.worker_thread = w, !.calls = @ + 1]
       ELSE cp' = [cp EXCEPT !.calls = @ + 1]
    /\ UNCHANGED notProcessor

\* stop_processing, lines 52-55, up to the join
StopProcessingCall ==
    /\ cp.lock = "free"
    /\ cp.calls < MaxProcessorCalls
    /\ IF cp.processing
       THEN cp' = [cp EXCEPT !.processing = FALSE, !.lock = "held", !.calls = @ + 1]
       ELSE cp' = [cp EXCEPT !.calls = @ + 1]
    /\ UNCHANGED notProcessor

\* line 55-56: command_queue.join() returns and the lock is released
StopProcessingJoined ==
    /\ cp.lock = "held"
    /\ QueueJoinReturns(cp)
    /\ cp' = [cp EXCEPT !.lock = "free"]
    /\ UNCHANGED notProcessor

\* enqueue_command, from any thread
ProcessorEnqueue ==
    /\ hist.cmdCount < MaxCmds
    /\ cp' = [cp EXCEPT !.command_queue = Append(@, hist.cmdCount + 1),
                        !.unfinished_tasks = @ + 1]
    /\ hist' = [hist EXCEPT !.cmdCount = @ + 1]
    /\ UNCHANGED <<app, teardown, tk, loops, mt, rs, rt, lm, lk, ls>>

\* line 32: while self.processing
ProcessorWorkerLoop(w) ==
    /\ cp.workers[w] = "loop"
    /\ cp' = [cp EXCEPT !.workers[w] = IF cp.processing THEN "get" ELSE "exited"]
    /\ UNCHANGED notProcessor

\* lines 34-40: command_queue.get(timeout=1): a command, which is scheduled
\* with root.after and marked done, or queue.Empty after a second
ProcessorWorkerGet(w) ==
    /\ cp.workers[w] = "get"
    /\ IF cp.command_queue # <<>>
       THEN /\ cp' = [cp EXCEPT !.command_queue = Tail(@), !.workers[w] = "task_done"]
            /\ tk' = [tk EXCEPT !.afterQueue = Append(@, Head(cp.command_queue))]
       ELSE /\ cp' = [cp EXCEPT !.workers[w] = "loop"]
            /\ UNCHANGED tk
    /\ UNCHANGED <<app, teardown, hist, loops, mt, rs, rt, lm, lk, ls>>

\* line 37: self.command_queue.task_done()
ProcessorWorkerTaskDone(w) ==
    /\ cp.workers[w] = "task_done"
    /\ cp' = [cp EXCEPT !.unfinished_tasks = @ - 1, !.workers[w] = "loop"]
    /\ UNCHANGED notProcessor

NextProcessor ==
    \/ ProcessQueueCall
    \/ StopProcessingCall
    \/ StopProcessingJoined
    \/ ProcessorEnqueue
    \/ \E w \in WorkerIds : ProcessorWorkerLoop(w)
    \/ \E w \in WorkerIds : ProcessorWorkerGet(w)
    \/ \E w \in WorkerIds : ProcessorWorkerTaskDone(w)

SpecProcessor == InitProcessor /\ [][NextProcessor]_vars

\* the worker threads that are taking commands: inside the loop body
TakingCommands == {w \in WorkerIds : cp.workers[w] \in {"get", "task_done"}}

\* C37: after any sequence of process_queue and stop_processing calls on one
\* CommandProcessor at most one dequeue worker is taking commands from the
\* queue at any time.
C37_AtMostOneDequeueWorker == Cardinality(TakingCommands) <= 1

\* what does hold: a process_queue call made while processing is on starts
\* no worker
NoSecondWorkerWhileProcessing ==
    [][(cp.processing /\ cp'.processing) =>
          \A w \in WorkerIds : cp.workers[w] = "none" => cp'.workers[w] = "none"]_vars

(***************************************************************************)
(* Properties of the return of _initialize_can_module                      *)
(***************************************************************************)
\* _initialize_can_module has returned without an exception
InitializedNormally == lk.pc = "ready"

\* C38: whenever _initialize_can_module returns normally the interface is up;
\* when the recovery took it down and no attempt brought it up again, the
\* initialization ends with an exception.
C38_ReadyMeansUp == InitializedNormally => lk.iface = "up"

\* what does hold: without a recovery that takes the interface down, a
\* normal return leaves the interface up
ReadyMeansUpWithoutRecovery ==
    (InitializedNormally /\ lk.up.caller # "recover") => lk.iface = "up"

\* the recovery that brought the interface up again returned with it up
RecoveredMeansUp ==
    (InitializedNormally /\ lk.up.caller = "recover" /\ lk.up.outcome = "returned")
        => lk.iface = "up"

====
